---- MODULE Spec2Model ----
(* LuluTracker background service worker (src/background.js) and the popup *)
(* handlers that write the tracked list (src/unnamed/part_000).            *)
(*                                                                         *)
(* A fetched page is modelled by the features of its HTML that the parser  *)
(* reads: the __NEXT_DATA__ payload (colors, skus, colorDriver,            *)
(* productSummary), the JSON-LD ProductGroup variants, the stock texts and *)
(* the price markup.  A URL is modelled by the parts the code inspects:    *)
(* host, path (category, slug, "-MD" suffix, product id), ".html", and the *)
(* color / size query parameters.                                          *)
EXTENDS Integers, Sequences, FiniteSets, TLC

(***************************************************************************)
(* Bounds of the model                                                     *)
(***************************************************************************)
MaxInvocations == 2   \* handler invocations in one behaviour
MaxConcurrent == 2    \* handler invocations in flight at the same time

(***************************************************************************)
(* JavaScript values                                                       *)
(***************************************************************************)
Null == -1            \* null / undefined where a number is expected
Unknown == -2         \* the '?' placeholder of a markdown change
NoStr == ""           \* null / undefined where a string is expected

Truthy(n) == n # Null /\ n # 0
Truthy_s(s) == s # NoStr

\* Array.prototype.find / some: index of the first element satisfying Test, 0 if none
Find(s, Test(_)) ==
  IF \E i \in 1..Len(s) : Test(s[i])
  THEN CHOOSE i \in 1..Len(s) : Test(s[i]) /\ \A j \in 1..(i - 1) : ~Test(s[j])
  ELSE 0
Some(s, Test(_)) == Find(s, Test) # 0
Every(s, Test(_)) == \A i \in 1..Len(s) : Test(s[i])
Filter(s, Test(_)) == SelectSeq(s, Test)
Map(s, F(_)) == [i \in 1..Len(s) |-> F(s[i])]
Range(s) == {s[i] : i \in 1..Len(s)}

(***************************************************************************)
(* URLs                                                                    *)
(***************************************************************************)
\* host: "us" (shop.lululemon.com), "hk", "au"; html: path ends in ".html";
\* md: slug carries the "-MD" suffix before "/_/"; color, sz: query parameters
Url(host, html, cat, slug, md, pid, color, sz) ==
  [host |-> host, html |-> html, cat |-> cat, slug |-> slug, md |-> md,
   pid |-> pid, color |-> color, sz |-> sz]

NoUrl == Url("", FALSE, "", "", FALSE, "", "", "")

getColorCodeFromUrl(url) == url.color

\* product.url.split('?')[0]
baseUrl(url) == [url EXCEPT !.color = NoStr, !.sz = NoStr]

\* product.url.replace(/(\/_\/)/, '-MD$1')
mdUrlOf(url) == [url EXCEPT !.md = TRUE]

\* two URLs of the same page: equal up to the query string
SamePage(u, v) == baseUrl(u) = baseUrl(v)

NotSelected == "Not selected"
SizeGiven(size) == size # NoStr /\ size # NotSelected


(***************************************************************************)
(* Fetched pages                                                           *)
(***************************************************************************)
Color(code, name) == [code |-> code, name |-> name]
Sku(color, size, available, listPrice, salePrice) ==
  [color |-> color, size |-> size, available |-> available,
   listPrice |-> listPrice, salePrice |-> salePrice]
Driver(color, sizes) == [color |-> color, sizes |-> sizes]
Variant(color, size, price, outOfStock) ==
  [color |-> color, size |-> size, price |-> price, outOfStock |-> outOfStock]
Summary(productId, unifiedId, parentCat) ==
  [productId |-> productId, unifiedId |-> unifiedId, parentCat |-> parentCat]

\* nextData: "absent" (no <script id="__NEXT_DATA__">), "malformed" (JSON.parse
\* throws), "noquery" (no query carries productSummary and skus), "ok"
Page(nextData, isSoldOut, colors, skus, colorDriver, summary, hasLd, variants, lowStockText, soldOutText, visibleLowStock, regexPrice) ==
  [nextData |-> nextData, isSoldOut |-> isSoldOut, colors |-> colors, skus |-> skus,
   colorDriver |-> colorDriver, summary |-> summary, hasLd |-> hasLd,
   variants |-> variants, lowStockText |-> lowStockText,
   soldOutText |-> soldOutText, visibleLowStock |-> visibleLowStock,
   regexPrice |-> regexPrice]

(***************************************************************************)
(* parseProductHtml                                                        *)
(***************************************************************************)
Snapshot(currentPrice, originalPrice, onSale, stockStatus, availableColors) ==
  [currentPrice |-> currentPrice, originalPrice |-> originalPrice, onSale |-> onSale,
   stockStatus |-> stockStatus, availableColors |-> availableColors]

EmptyResult == Snapshot(Null, Null, FALSE, "in_stock", <<>>)

isIntl(url) == url.html \/ url.host = "hk" \/ url.host = "au"

\* parseFloat(x) || null
FloatOrNull(x) == IF Truthy(x) THEN x ELSE Null

\* s.color?.code === colorCode && (!product.size || product.size === 'Not selected' || s.size === product.size)
SkuMatches(s, colorCode, size) ==
  s.color = colorCode /\ (~SizeGiven(size) \/ s.size = size)

\* the matching SKU's price and availability
ParseSku(sku, result) ==
  LET listPrice == FloatOrNull(sku.listPrice)
      salePrice == IF Truthy(sku.salePrice) THEN sku.salePrice ELSE Null
      sale == Truthy(salePrice) /\ Truthy(listPrice) /\ salePrice < listPrice
  IN [result EXCEPT
        !.currentPrice = IF sale THEN salePrice ELSE listPrice,
        !.originalPrice = IF sale THEN listPrice ELSE result.originalPrice,
        !.onSale = IF sale THEN TRUE ELSE result.onSale,
        !.stockStatus = IF ~sku.available THEN "sold_out" ELSE result.stockStatus]

\* no SKU matched: colorDriver lists the sizes of the color
ParseColorDriver(html, colorCode, size, result) ==
  LET d == Find(html.colorDriver, LAMBDA cd : cd.color = colorCode)
  IN IF SizeGiven(size) /\ d # 0 /\ size \notin html.colorDriver[d].sizes
     THEN [result EXCEPT !.stockStatus = "sold_out"]
     ELSE result

\* Strategy 1: __NEXT_DATA__ (US site)
ParseNextData(html, product, result) ==
  IF html.nextData # "ok" THEN result
  ELSE
    LET r1 == [result EXCEPT
                 !.stockStatus = IF html.isSoldOut THEN "sold_out" ELSE @,
                 !.availableColors = html.colors]
        colorCode == getColorCodeFromUrl(product.url)
        m == Find(html.skus, LAMBDA s : SkuMatches(s, colorCode, product.size))
        r2 == IF ~Truthy_s(colorCode) THEN r1
              ELSE IF m # 0 THEN ParseSku(html.skus[m], r1)
              ELSE ParseColorDriver(html, colorCode, product.size, r1)
    IN IF ~Truthy(r2.currentPrice) /\ Len(html.skus) > 0
       THEN [r2 EXCEPT !.currentPrice = FloatOrNull(html.skus[1].listPrice)]
       ELSE r2

\* colors of the variants, deduplicated by name, in order of first appearance
LdColors(variants) ==
  LET firsts == SelectSeq([i \in 1..Len(variants) |-> i],
                   LAMBDA i : variants[i].color # NoStr
                              /\ \A j \in 1..(i - 1) : variants[j].color # variants[i].color)
  IN [k \in 1..Len(firsts) |-> Color(variants[firsts[k]].color, variants[firsts[k]].color)]

\* Strategy 2: JSON-LD ProductGroup (SFCC international sites)
ParseJsonLd(html, product, result) ==
  IF ~(isIntl(product.url) \/ html.nextData = "absent") \/ ~html.hasLd THEN result
  ELSE
    LET colorName == product.color
        colorVariants == IF Truthy_s(colorName)
                         THEN Filter(html.variants, LAMBDA v : v.color = colorName)
                         ELSE <<>>
        r1 == [result EXCEPT !.availableColors = LdColors(html.variants)]
        sizeMatch == Find(colorVariants, LAMBDA v : v.size = product.size)
        sizeOut == SizeGiven(product.size) /\ sizeMatch # 0
                   /\ colorVariants[sizeMatch].outOfStock
        allOut == Every(colorVariants, LAMBDA v : v.outOfStock)
    IN IF Len(colorVariants) = 0 THEN r1
       ELSE [r1 EXCEPT
               !.currentPrice = IF colorVariants[1].price # Null /\ colorVariants[1].price > 0
                                THEN colorVariants[1].price ELSE @,
               !.stockStatus = IF sizeOut \/ allOut THEN "sold_out" ELSE @]

\* variant: the low-stock texts count whatever the strategies have found
StockTextFirst(html, product, result) ==
  IF ~isIntl(product.url)
  THEN LET r1 == IF html.lowStockText
                 THEN [result EXCEPT !.stockStatus = "low_stock"] ELSE result
       IN IF r1.stockStatus # "sold_out" /\ r1.stockStatus # "low_stock" /\ html.soldOutText
          THEN [r1 EXCEPT !.stockStatus = "sold_out"] ELSE r1
  ELSE IF html.visibleLowStock
       THEN [result EXCEPT !.stockStatus = "low_stock"] ELSE result

\* Fallback: stock texts
ParseStockText(html, product, result) ==
  IF ~isIntl(product.url)
  THEN LET r1 == IF html.lowStockText /\ result.stockStatus # "sold_out"
                 THEN [result EXCEPT !.stockStatus = "low_stock"] ELSE result
       IN IF r1.stockStatus # "sold_out" /\ r1.stockStatus # "low_stock" /\ html.soldOutText
          THEN [r1 EXCEPT !.stockStatus = "sold_out"] ELSE r1
  ELSE IF result.stockStatus = "in_stock" /\ html.visibleLowStock
       THEN [result EXCEPT !.stockStatus = "low_stock"] ELSE result

\* Fallback: price markup
ParsePriceText(html, result) ==
  IF ~Truthy(result.currentPrice) /\ html.regexPrice # Null
  THEN [result EXCEPT !.currentPrice = html.regexPrice] ELSE result

parseProductHtml(html, product) ==
  ParsePriceText(html,
    ParseStockText(html, product,
      ParseJsonLd(html, product,
        ParseNextData(html, product, EmptyResult))))

(***************************************************************************)
(* Tracked items and change events                                         *)
(***************************************************************************)
LastChange(type, timestamp) == [type |-> type, timestamp |-> timestamp]
NoChange == LastChange(NoStr, Null)          \* lastChange: null

\* what the content script hands to addProduct; the fields it leaves out are
\* undefined: trackNewColors (falsy), addedAt, lastChange, markdownUrl
ProductData(productId, color, size, name, url, region, currentPrice, originalPrice, onSale, stockStatus, availableColors) ==
  [productId |-> productId, color |-> color, size |-> size, name |-> name,
   url |-> url, region |-> region, currentPrice |-> currentPrice,
   originalPrice |-> originalPrice, onSale |-> onSale, stockStatus |-> stockStatus,
   availableColors |-> availableColors, trackNewColors |-> FALSE, addedAt |-> Null,
   lastChecked |-> Null, lastChange |-> NoChange, markdownUrl |-> NoUrl]

Event(type, from, to, pfrom, pto, color, salePrice, listPrice) ==
  [type |-> type, from |-> from, to |-> to, pfrom |-> pfrom, pto |-> pto,
   color |-> color, salePrice |-> salePrice, listPrice |-> listPrice]
StatusChange(from, to) == Event("status_change", from, to, Null, Null, NoStr, Null, Null)
PriceChange(from, to) == Event("price_change", NoStr, NoStr, from, to, NoStr, Null, Null)
WentOnSale == Event("went_on_sale", NoStr, NoStr, Null, Null, NoStr, Null, Null)
NewColor(name) == Event("new_color", NoStr, NoStr, Null, Null, name, Null, Null)
MovedToMarkdown(salePrice, listPrice) ==
  Event("moved_to_markdown", NoStr, NoStr, Null, Null, NoStr, salePrice, listPrice)

\* variant: only a worsening of the status is reported
StatusWorsens(oldProduct, newData) ==
  IF oldProduct.stockStatus # newData.stockStatus /\ newData.stockStatus # "in_stock"
  THEN <<StatusChange(oldProduct.stockStatus, newData.stockStatus)>> ELSE <<>>

(***************************************************************************)
(* detectChanges                                                           *)
(***************************************************************************)
StatusChanges(oldProduct, newData) ==
  IF oldProduct.stockStatus # newData.stockStatus
  THEN <<StatusChange(oldProduct.stockStatus, newData.stockStatus)>> ELSE <<>>

\* variant: a price that fills an unknown one is reported as a change
PriceFilled(oldProduct, newData) ==
  IF Truthy(newData.currentPrice) /\ oldProduct.currentPrice # newData.currentPrice
  THEN <<PriceChange(oldProduct.currentPrice, newData.currentPrice)>> ELSE <<>>

PriceChanges(oldProduct, newData) ==
  IF Truthy(oldProduct.currentPrice) /\ Truthy(newData.currentPrice)
     /\ oldProduct.currentPrice # newData.currentPrice
  THEN <<PriceChange(oldProduct.currentPrice, newData.currentPrice)>> ELSE <<>>

\* variant: the end of a sale is reported like its start
SaleFlips(oldProduct, newData) ==
  IF oldProduct.onSale # newData.onSale THEN <<WentOnSale>> ELSE <<>>

SaleChanges(oldProduct, newData) ==
  IF ~oldProduct.onSale /\ newData.onSale THEN <<WentOnSale>> ELSE <<>>

\* both availableColors are arrays, which are truthy even when empty
NewColorChanges(oldProduct, newData) ==
  IF oldProduct.trackNewColors
  THEN LET oldCodes == {c.code : c \in Range(oldProduct.availableColors)}
           fresh == Filter(newData.availableColors, LAMBDA c : c.code \notin oldCodes)
       IN [i \in 1..Len(fresh) |-> NewColor(fresh[i].name)]
  ELSE <<>>

\* variant: the new colors are reported first
detectColorsFirst(oldProduct, newData) ==
  NewColorChanges(oldProduct, newData) \o StatusChanges(oldProduct, newData)
    \o PriceChanges(oldProduct, newData) \o SaleChanges(oldProduct, newData)

detectChanges(oldProduct, newData) ==
  StatusChanges(oldProduct, newData) \o PriceChanges(oldProduct, newData)
    \o SaleChanges(oldProduct, newData) \o NewColorChanges(oldProduct, newData)

(***************************************************************************)
(* checkMarkdownTransition                                                 *)
(***************************************************************************)
\* a fetch response: ok is response.ok (FALSE also stands for a rejected fetch),
\* html the name of the page served
Response(ok, html) == [ok |-> ok, html |-> html]
NoResponse == Response(FALSE, "none")

Transition(found, discountUrl, change) ==
  [found |-> found, discountUrl |-> discountUrl, change |-> change]
NoTransition == Transition(FALSE, NoUrl, MovedToMarkdown(Null, Null))   \* null

\* the tracked color has a code and is no longer on the normal page: the -MD page is fetched
MarkdownNeedsFetch(product, newData) ==
  LET trackedColorCode == getColorCodeFromUrl(product.url)
  IN Truthy_s(trackedColorCode)
     /\ ~Some(newData.availableColors, LAMBDA c : c.code = trackedColorCode)

OrUnknown(price) == IF Truthy(price) THEN price ELSE Unknown   \* price || '?'

\* variant: whatever the -MD address answers, the item is taken to have moved
MarkdownOptimistic(product, ok, html) ==
  Transition(TRUE, mdUrlOf(product.url), MovedToMarkdown(Unknown, Unknown))

\* the part of checkMarkdownTransition after the fetch of the -MD page
MarkdownFromPage(product, ok, html) ==
  LET trackedColorCode == getColorCodeFromUrl(product.url)
      m == Find(html.skus, LAMBDA s : SkuMatches(s, trackedColorCode, product.size))
      salePrice == IF m # 0 /\ Truthy(html.skus[m].salePrice)
                   THEN html.skus[m].salePrice ELSE Null
      listPrice == IF m # 0 /\ Truthy(html.skus[m].listPrice)
                   THEN html.skus[m].listPrice ELSE product.currentPrice
      discountUrl == Url("us", FALSE, html.summary.parentCat, html.summary.unifiedId,
                         FALSE, html.summary.productId, trackedColorCode,
                         IF SizeGiven(product.size) THEN product.size ELSE NoStr)
  IN IF ~ok \/ html.nextData # "ok" THEN NoTransition
     ELSE IF ~Some(html.colors, LAMBDA c : c.code = trackedColorCode) THEN NoTransition
     ELSE Transition(TRUE, discountUrl,
                     MovedToMarkdown(OrUnknown(salePrice), OrUnknown(listPrice)))

(***************************************************************************)
(* sendNotification                                                        *)
(***************************************************************************)
getStatusTitle(status) ==
  CASE status = "low_stock" -> "Almost Sold Out!"
    [] status = "sold_out" -> "Sold Out"
    [] status = "in_stock" -> "Back in Stock!"
    [] OTHER -> "Status Changed"

NotificationTypes ==
  {"status_change", "price_change", "went_on_sale", "new_color", "moved_to_markdown"}

NotificationTitle(change) ==
  CASE change.type = "status_change" -> getStatusTitle(change.to)
    [] change.type = "price_change" ->
         IF change.pto < change.pfrom THEN "Price Drop!" ELSE "Price Increased"
    [] change.type = "went_on_sale" -> "Now On Sale!"
    [] change.type = "new_color" -> "New Color Available!"
    [] change.type = "moved_to_markdown" -> "Moved to We Made Too Much!"
    [] OTHER -> NoStr

\* the OS notification requested by chrome.notifications.create
Notification(id, product, change) ==
  [id |-> id, title |-> NotificationTitle(change), productId |-> product.productId,
   color |-> product.color, size |-> product.size, change |-> change]

\* notifId: `lulu-${Date.now()}-${random}`, one per call; here the invocation,
\* the item and the position of the event
NotifId(started, idx, j) == <<started, idx, j>>

\* { id: notifId, url: product.url }
Notif(id, url) == [id |-> id, url |-> url]
NoNotif == Notif(<<>>, NoUrl)                \* null

\* variant: the default case builds a notification like the others
sendAnyType(product, change, notifId) ==
  [created |-> {Notification(notifId, product, change)},
   result |-> Notif(notifId, product.url)]

\* sendNotification: the notifications it requests and the value it returns
sendNotification(product, change, notifId) ==
  IF change.type \in NotificationTypes
  THEN [created |-> {Notification(notifId, product, change)},
        result |-> Notif(notifId, product.url)]
  ELSE [created |-> {}, result |-> NoNotif]       \* default: return null

\* variant: every sibling announces the new color
DedupNothing(changes, product, notifiedIds) == changes

(***************************************************************************)
(* checkAllProducts: the steps on one item                                 *)
(***************************************************************************)
\* changes.filter(c => c.type !== 'new_color') once the productId has notified
DedupNewColor(changes, product, notifiedIds) ==
  IF Truthy_s(product.productId) /\ product.productId \in notifiedIds
  THEN Filter(changes, LAMBDA c : c.type # "new_color")
  ELSE changes

MarkNotified(changes, product, notifiedIds) ==
  IF Some(changes, LAMBDA c : c.type = "new_color") /\ Truthy_s(product.productId)
  THEN notifiedIds \cup {product.productId}
  ELSE notifiedIds

IsSoldOutChange(c) == c.type = "status_change" /\ c.to = "sold_out"

\* variant: the clearance page is looked up for every item of a normal page
GateAnyItem(product, changes) == ~product.url.md /\ ~product.url.html

\* the condition under which checkMarkdownTransition is called
MarkdownGate(product, changes) ==
  ~product.url.md /\ ~product.url.html
  /\ (Some(changes, IsSoldOutChange) \/ product.trackNewColors)

\* variant: the stored status follows the normal page even after a markdown
\* transition
MergeKeepStatus(product, newData, changes, markdownTransition, now) ==
  [product EXCEPT
     !.currentPrice = IF newData.currentPrice # Null THEN newData.currentPrice ELSE @,
     !.originalPrice = IF newData.originalPrice # Null THEN newData.originalPrice ELSE @,
     !.onSale = newData.onSale,
     !.stockStatus = newData.stockStatus,
     !.availableColors = IF Len(newData.availableColors) > 0
                         THEN newData.availableColors ELSE @,
     !.lastChecked = now,
     !.lastChange = IF Len(changes) > 0 \/ markdownTransition.found
                    THEN LastChange(IF markdownTransition.found THEN "moved_to_markdown"
                                    ELSE changes[1].type, now)
                    ELSE @,
     !.markdownUrl = IF markdownTransition.found THEN markdownTransition.discountUrl ELSE @]

\* variant: a markdown transition is stored as a status of its own
MergeMarkdownStatus(product, newData, changes, markdownTransition, now) ==
  [product EXCEPT
     !.currentPrice = IF newData.currentPrice # Null THEN newData.currentPrice ELSE @,
     !.originalPrice = IF newData.originalPrice # Null THEN newData.originalPrice ELSE @,
     !.onSale = newData.onSale,
     !.stockStatus = IF markdownTransition.found THEN "moved_to_markdown"
                     ELSE newData.stockStatus,
     !.availableColors = IF Len(newData.availableColors) > 0
                         THEN newData.availableColors ELSE @,
     !.lastChecked = now,
     !.lastChange = IF Len(changes) > 0 \/ markdownTransition.found
                    THEN LastChange(IF markdownTransition.found THEN "moved_to_markdown"
                                    ELSE changes[1].type, now)
                    ELSE @,
     !.markdownUrl = IF markdownTransition.found THEN markdownTransition.discountUrl ELSE @]

\* variant: the snapshot's prices and colors are stored as they come
MergeOverwrite(product, newData, changes, markdownTransition, now) ==
  [product EXCEPT
     !.currentPrice = newData.currentPrice,
     !.originalPrice = newData.originalPrice,
     !.onSale = newData.onSale,
     !.stockStatus = IF markdownTransition.found THEN "in_stock" ELSE newData.stockStatus,
     !.availableColors = newData.availableColors,
     !.lastChecked = now,
     !.lastChange = IF Len(changes) > 0 \/ markdownTransition.found
                    THEN LastChange(IF markdownTransition.found THEN "moved_to_markdown"
                                    ELSE changes[1].type, now)
                    ELSE @,
     !.markdownUrl = IF markdownTransition.found THEN markdownTransition.discountUrl ELSE @]

\* variant: lastChange takes the type of the last event of the item
MergeLastEvent(product, newData, changes, markdownTransition, now) ==
  [product EXCEPT
     !.currentPrice = IF newData.currentPrice # Null THEN newData.currentPrice ELSE @,
     !.originalPrice = IF newData.originalPrice # Null THEN newData.originalPrice ELSE @,
     !.onSale = newData.onSale,
     !.stockStatus = IF markdownTransition.found THEN "in_stock" ELSE newData.stockStatus,
     !.availableColors = IF Len(newData.availableColors) > 0 THEN newData.availableColors ELSE @,
     !.lastChecked = now,
     !.lastChange = IF Len(changes) > 0
                    THEN LastChange(changes[Len(changes)].type, now)
                    ELSE IF markdownTransition.found THEN LastChange("moved_to_markdown", now)
                    ELSE @,
     !.markdownUrl = IF markdownTransition.found THEN markdownTransition.discountUrl ELSE @]

\* the item pushed to updatedProducts
MergeItem(product, newData, changes, markdownTransition, now) ==
  [product EXCEPT
     !.currentPrice = IF newData.currentPrice # Null THEN newData.currentPrice ELSE @,
     !.originalPrice = IF newData.originalPrice # Null THEN newData.originalPrice ELSE @,
     !.onSale = newData.onSale,
     !.stockStatus = IF markdownTransition.found THEN "in_stock" ELSE newData.stockStatus,
     !.availableColors = IF Len(newData.availableColors) > 0
                         THEN newData.availableColors ELSE @,
     !.lastChecked = now,
     !.lastChange = IF Len(changes) > 0 \/ markdownTransition.found
                    THEN LastChange(IF markdownTransition.found THEN "moved_to_markdown"
                                    ELSE changes[1].type, now)
                    ELSE @,
     !.markdownUrl = IF markdownTransition.found THEN markdownTransition.discountUrl ELSE @]

(***************************************************************************)
(* The products and pages of the model                                     *)
(***************************************************************************)
Black == Color("c1", "Black")
White == Color("c2", "White")
Red == Color("c3", "Red")
Navy == Color("Navy", "Navy")

ShirtUrl(color, sz) == Url("us", FALSE, "tops", "shirt", FALSE, "prod1", color, sz)
TeeUrl == Url("hk", TRUE, "tees", "tee", FALSE, "prod2", "n9", "S")

BlackM == ProductData("prod1", "Black", "M", "Shirt", ShirtUrl("c1", "M"), "US",
                      78, Null, FALSE, "in_stock", <<Black, White>>)
WhiteM == ProductData("prod1", "White", "M", "Shirt", ShirtUrl("c2", "M"), "US",
                      78, Null, FALSE, "in_stock", <<Black, White>>)
NavyS == ProductData("prod2", "Navy", "S", "Tee", TeeUrl, "HK",
                     300, Null, FALSE, "in_stock", <<Navy>>)

Products == {BlackM, WhiteM, NavyS}

ShirtSummary == Summary("prod1", "shirt", "tops")
USPage(isSoldOut, colors, skus, lowStockText) ==
  Page("ok", isSoldOut, colors, skus, <<>>, ShirtSummary, FALSE, <<>>,
       lowStockText, FALSE, FALSE, Null)

NoPage == Page("absent", FALSE, <<>>, <<>>, <<>>, Summary(NoStr, NoStr, NoStr), FALSE,
               <<>>, FALSE, FALSE, FALSE, Null)

\* the pages the remote site can serve, by name
PageOf(name) ==
  CASE name = "shirt" ->
         USPage(FALSE, <<Black, White>>,
                <<Sku("c1", "M", TRUE, 78, Null), Sku("c2", "M", TRUE, 78, Null)>>, FALSE)
    [] name = "shirt_black_out" ->
         USPage(FALSE, <<Black, White>>,
                <<Sku("c1", "M", FALSE, 78, Null), Sku("c2", "M", TRUE, 78, Null)>>, FALSE)
    [] name = "shirt_black_sale" ->
         USPage(FALSE, <<Black, White>>,
                <<Sku("c1", "M", TRUE, 78, 58), Sku("c2", "M", TRUE, 78, Null)>>, FALSE)
    [] name = "shirt_red" ->
         USPage(FALSE, <<Black, White, Red>>,
                <<Sku("c1", "M", TRUE, 78, Null), Sku("c2", "M", TRUE, 78, Null),
                  Sku("c3", "M", TRUE, 78, Null)>>, TRUE)
    [] name = "shirt_black_gone" ->
         USPage(FALSE, <<White>>,
                <<Sku("c1", "M", FALSE, 78, Null), Sku("c2", "M", TRUE, 78, Null)>>, FALSE)
    [] name = "shirt_md" ->
         [USPage(FALSE, <<Black>>, <<Sku("c1", "M", TRUE, 60, 40)>>, FALSE)
            EXCEPT !.summary = Summary("prod9", "shirt-MD", "tops")]
    [] name = "shirt_nodata" -> NoPage      \* served, with no product data in it
    [] name = "tee" ->
         Page("absent", FALSE, <<>>, <<>>, <<>>, Summary(NoStr, NoStr, NoStr), TRUE,
              <<Variant("Navy", "S", 300, FALSE), Variant("Navy", "M", 300, TRUE)>>,
              FALSE, FALSE, FALSE, Null)
    [] OTHER -> NoPage

ShirtKey == baseUrl(ShirtUrl(NoStr, NoStr))
MdKey == mdUrlOf(ShirtKey)
TeeKey == baseUrl(TeeUrl)

Site(shirt, md, tee) ==
  [k \in {ShirtKey, MdKey, TeeKey} |->
     IF k = ShirtKey THEN shirt ELSE IF k = MdKey THEN md ELSE tee]

\* the states of the remote site: the page served under each address; "404"
\* where there is none
Sites ==
  {Site("shirt", "404", "tee"), Site("shirt_black_out", "404", "tee"),
   Site("shirt_black_sale", "404", "tee"), Site("shirt_red", "404", "tee"),
   Site("shirt_black_gone", "404", "tee"), Site("shirt_black_gone", "shirt_md", "tee")}

(***************************************************************************)
(* State                                                                   *)
(***************************************************************************)
VARIABLES
  trackedProducts,   \* chrome.storage.local: the tracked-item list
  notificationMap,   \* chrome.storage.local: notification id -> url
  badge,             \* the badge of the extension icon
  notifications,     \* the OS notifications on display
  tabs,              \* the tabs opened by chrome.tabs.create, in order
  ops,               \* the handler invocations: their position and locals
  site,              \* the remote site: page served under each address
  now,               \* the clock: it advances with every handler invocation, and
                     \* the Date.now() calls of an invocation read its start time
  faults,            \* fetches may fail and the notification service may reject
  lastCycle          \* trace: the run of checkAllProducts that has just completed
                     \* on its own, NoCycle once another handler has run or the
                     \* site has changed

vars == <<trackedProducts, notificationMap, badge, notifications, tabs, ops, site,
          now, faults, lastCycle>>

Slots == 1..MaxConcurrent

\* an item as addProduct stores it
Tracked(product, trackNewColors) ==
  [product EXCEPT !.addedAt = 0, !.trackNewColors = trackNewColors, !.lastChecked = 0]

\* one entry of a cycle's trace: what happened to the item at position idx
\* got: a snapshot was obtained; raw: what detectChanges returned; events: the
\* events of the item after dedup and markdown resolution; created: how many of
\* them got their notification; mdFetched: the page served for the -MD address
LogEntry(got, newData, raw, events, created, md, mdFetched, threw) ==
  [got |-> got, newData |-> newData, raw |-> raw, events |-> events,
   created |-> created, md |-> md, mdFetched |-> mdFetched, threw |-> threw]

\* clean: no fetch failed in transit and no notification was rejected;
\* written: the list it stored
CycleTrace(clean, written) == [clean |-> clean, written |-> written]
NoCycle == CycleTrace(FALSE, <<>>)

\* a handler invocation; fields a handler does not use keep their initial value
UnusedOp ==
  [kind |-> "none", pc |-> "unused", trigger |-> NoStr,
   trackedProducts |-> <<>>,            \* the list the handler read
   idx |-> 0,                           \* position in the for loop
   updatedProducts |-> <<>>, pendingNotifications |-> <<>>,
   fetchCache |-> <<>>,                 \* baseUrl -> newData
   newColorNotifiedProductIds |-> {},
   newData |-> EmptyResult, changes |-> <<>>,
   html |-> NoPage,                     \* the document handed to parseProductHtml
   notificationMap |-> <<>>,            \* the table the handler read
   product |-> BlackM, index |-> 0, checked |-> FALSE,
   result |-> "none",                   \* the response sent to the caller
   fetched |-> <<>>,                    \* trace: the fetches, in order
   writes |-> 0,                        \* trace: writes of the tracked list
   log |-> <<>>,                        \* trace: one LogEntry per item
   netError |-> FALSE,                  \* trace: a fetch failed in transit
   started |-> 0,                       \* Date.now() at the start
   notifId |-> <<>>,                    \* the notification clicked
   change |-> WentOnSale,               \* the event handed to sendNotification
   notif |-> NoNotif,                   \* what sendNotification returned
   before |-> NoCycle]                  \* trace: lastCycle at the start

Active(i) == ops[i].pc # "unused"
Idle == \A j \in Slots : ~Active(j)
\* a new invocation takes the first slot that is not in flight
Free(i) == ~Active(i) /\ \A j \in 1..(i - 1) : Active(j)
CanInvoke(i) == Free(i) /\ now < MaxInvocations

\* the result of fetch(url): the page served, an HTTP error, or a failure in transit
Responses(url) ==
  LET key == baseUrl(url)
      served == IF key \in DOMAIN site THEN site[key] ELSE "404"
  IN (IF served = "404" THEN {NoResponse} ELSE {Response(TRUE, served)})
     \cup (IF faults THEN {Response(FALSE, "error")} ELSE {})

Put(f, k, v) == [x \in DOMAIN f \cup {k} |-> IF x = k THEN v ELSE f[x]]

\* variant: the loop goes on without waiting for the answer
NotAwaited(fetched, resp) == fetched

\* trace of the fetches of an invocation: the URL, and "pending", "ok" or "failed"
Fetch(url, outcome) == [url |-> url, outcome |-> outcome]
Issued(fetched, url) == Append(fetched, Fetch(url, "pending"))
Returned(fetched, resp) ==
  [fetched EXCEPT ![Len(fetched)].outcome = IF resp.ok THEN "ok" ELSE "failed"]

\* variant: a cycle that keeps no snapshot for later items
CacheNothing(fetchCache, key, newData) == fetchCache

\* line 126: if (newData) fetchCache[baseUrl] = newData
CacheFetched(fetchCache, key, newData) == Put(fetchCache, key, newData)

\* variant: a failed item is dropped from the list
PushNothing(updatedProducts, product) == updatedProducts

\* lines 130 and 187: updatedProducts.push(product)
PushUnchanged(updatedProducts, product) == Append(updatedProducts, product)

\* variant: the loop ends after the item in hand
StopAfterItem(op) == [op EXCEPT !.idx = op.idx + 1, !.pc = "flush"]

(***************************************************************************)
(* checkAllProducts                                                        *)
(***************************************************************************)
\* end of one iteration of the for loop
NextItem(op) ==
  [op EXCEPT !.idx = op.idx + 1,
             !.pc = IF op.idx + 1 > Len(op.trackedProducts) THEN "flush" ELSE "loop"]

\* lines 155-188: notifications of the item, then the push to updatedProducts;
\* created < Len(events) when chrome.notifications.create rejects, which the
\* catch turns into a push of the unchanged product
FinishItem(i, op, product, newData, raw, changes, markdownTransition, mdFetched) ==
  LET kept == IF markdownTransition.found
              THEN Filter(changes, LAMBDA c : ~IsSoldOutChange(c)) ELSE changes
      events == (IF markdownTransition.found THEN <<markdownTransition.change>> ELSE <<>>)
                \o kept
      urlOf(j) == IF markdownTransition.found /\ j = 1
                  THEN markdownTransition.discountUrl ELSE product.url
  IN \E created \in (IF faults THEN 0..Len(events) ELSE {Len(events)}) :
       LET threw == created < Len(events)
       IN /\ notifications' = notifications \cup
                {Notification(NotifId(op.started, op.idx, j), product, events[j]) : j \in 1..created}
          /\ ops' = [ops EXCEPT ![i] = NextItem(
               [op EXCEPT
                  !.updatedProducts =
                     IF threw THEN PushUnchanged(@, product)
                     ELSE Append(@, MergeItem(product, newData, kept,
                                              markdownTransition, op.started)),
                  !.pendingNotifications =
                     @ \o [j \in 1..created |-> Notif(NotifId(op.started, op.idx, j), urlOf(j))],
                  !.log = Append(@, LogEntry(TRUE, newData, raw, events, created,
                                             markdownTransition, mdFetched, threw))])]

\* lines 134-154: diff, new-color dedup, and the call of checkMarkdownTransition
\* up to its fetch
HaveData(i, op, product, newData) ==
  LET raw == detectChanges(product, newData)
      changes == DedupNewColor(raw, product, op.newColorNotifiedProductIds)
      op1 == [op EXCEPT
                !.newColorNotifiedProductIds = MarkNotified(changes, product, @),
                !.newData = newData, !.changes = changes]
  IN IF MarkdownGate(product, changes) /\ MarkdownNeedsFetch(product, newData)
     THEN /\ ops' = [ops EXCEPT ![i] =
                       [op1 EXCEPT !.pc = "mdfetch",
                                   !.fetched = Issued(@, mdUrlOf(product.url))]]
          /\ UNCHANGED notifications
     ELSE FinishItem(i, op1, product, newData, raw, changes, NoTransition, "none")

\* lines 100-114 of checkAllProducts
StartCheck(i, trigger) ==
  /\ CanInvoke(i)
  /\ now' = now + 1
  /\ ops' = [ops EXCEPT ![i] =
       IF Len(trackedProducts) = 0 THEN UnusedOp      \* line 102: return
       ELSE [UnusedOp EXCEPT
               !.kind = "check", !.trigger = trigger, !.started = now',
               !.trackedProducts = trackedProducts, !.idx = 1, !.pc = "loop",
               !.before = lastCycle]]
  /\ UNCHANGED <<trackedProducts, notificationMap, badge, notifications, site,
                 faults, lastCycle, tabs>>

\* chrome.alarms.onAlarm
AlarmFired(i) == StartCheck(i, "alarm")

\* the 'checkNow' message
CheckNow(i) == StartCheck(i, "checkNow")

\* lines 116-127: the cached snapshot, or the fetch of the product page
CheckItem(i) ==
  LET op == ops[i]
      product == op.trackedProducts[op.idx]
      key == baseUrl(product.url)
  IN /\ op.kind = "check" /\ op.pc = "loop"
     /\ IF key \in DOMAIN op.fetchCache
        THEN HaveData(i, op, product, op.fetchCache[key])
        ELSE /\ ops' = [ops EXCEPT ![i] =
                          [op EXCEPT !.pc = "fetch", !.fetched = Issued(@, product.url)]]
             /\ UNCHANGED notifications
     /\ UNCHANGED <<trackedProducts, notificationMap, badge, site, now, faults, lastCycle, tabs>>

\* fetchProductStatus returns: null, or the parsed page
FetchReturns(i) ==
  LET op == ops[i]
      product == op.trackedProducts[op.idx]
  IN /\ op.kind = "check" /\ op.pc = "fetch"
     /\ \E resp \in Responses(product.url) :
          IF ~resp.ok
          THEN /\ ops' = [ops EXCEPT ![i] = NextItem(
                    [op EXCEPT
                       !.updatedProducts = PushUnchanged(@, product),
                       !.fetched = Returned(@, resp),
                       !.netError = @ \/ resp.html = "error",
                       !.log = Append(@, LogEntry(FALSE, EmptyResult, <<>>, <<>>, 0,
                                                  NoTransition, "none", FALSE))])]
               /\ UNCHANGED notifications
          ELSE LET newData == parseProductHtml(PageOf(resp.html), product)
               IN HaveData(i, [op EXCEPT
                                  !.fetchCache = CacheFetched(@, baseUrl(product.url), newData),
                                  !.fetched = Returned(@, resp)],
                           product, newData)
     /\ UNCHANGED <<trackedProducts, notificationMap, badge, site, now, faults, lastCycle, tabs>>

\* the fetch of the -MD page returns; rest of checkMarkdownTransition
MarkdownReturns(i) ==
  LET op == ops[i]
      product == op.trackedProducts[op.idx]
  IN /\ op.kind = "check" /\ op.pc = "mdfetch"
     /\ \E resp \in Responses(mdUrlOf(product.url)) :
          FinishItem(i, [op EXCEPT !.netError = @ \/ resp.html = "error",
                                   !.fetched = Returned(@, resp)], product,
                     op.newData, detectChanges(product, op.newData), op.changes,
                     MarkdownFromPage(product, resp.ok, PageOf(resp.html)), resp.html)
     /\ UNCHANGED <<trackedProducts, notificationMap, badge, site, now, faults, lastCycle, tabs>>

\* line 193: the read of notificationMap
ReadNotificationMap(i) ==
  /\ ops[i].kind = "check" /\ ops[i].pc = "flush"
  /\ Len(ops[i].pendingNotifications) > 0
  /\ ops' = [ops EXCEPT ![i].notificationMap = notificationMap, ![i].pc = "flushset"]
  /\ UNCHANGED <<trackedProducts, notificationMap, badge, notifications, site,
                 now, faults, lastCycle, tabs>>

\* variant: the write holds the entries of this cycle only
PutFresh(map, notifs) ==
  [id \in {notifs[k].id : k \in 1..Len(notifs)} |->
     (CHOOSE n \in {notifs[k] : k \in 1..Len(notifs)} : n.id = id).url]

RECURSIVE PutAll(_, _)
PutAll(map, notifs) ==
  IF notifs = <<>> THEN map
  ELSE PutAll(Put(map, Head(notifs).id, Head(notifs).url), Tail(notifs))

\* lines 194-197: the write of notificationMap
WriteNotificationMap(i) ==
  /\ ops[i].kind = "check" /\ ops[i].pc = "flushset"
  /\ notificationMap' = PutAll(ops[i].notificationMap, ops[i].pendingNotifications)
  /\ ops' = [ops EXCEPT ![i].pc = "store"]
  /\ UNCHANGED <<trackedProducts, badge, notifications, site, now,
                 faults, lastCycle, tabs>>

\* variant: the list is also written from inside the loop
StoreProductsEarly(i) ==
  /\ ops[i].kind = "check"
  /\ \/ ops[i].pc = "store"
     \/ ops[i].pc = "flush" /\ Len(ops[i].pendingNotifications) = 0
     \/ ops[i].pc = "loop" /\ ops[i].writes = 0
  /\ trackedProducts' = ops[i].updatedProducts
  /\ ops' = [ops EXCEPT ![i].pc = IF @ = "loop" THEN "loop" ELSE "badge",
                        ![i].writes = @ + 1]
  /\ UNCHANGED <<notificationMap, badge, notifications, site, now,
                 faults, lastCycle, tabs>>

\* line 200: the write of the tracked list
StoreProducts(i) ==
  /\ ops[i].kind = "check"
  /\ \/ ops[i].pc = "store"
     \/ ops[i].pc = "flush" /\ Len(ops[i].pendingNotifications) = 0
  /\ trackedProducts' = ops[i].updatedProducts
  /\ ops' = [ops EXCEPT ![i].pc = "badge", ![i].writes = @ + 1]
  /\ UNCHANGED <<notificationMap, badge, notifications, site, now,
                 faults, lastCycle, tabs>>

(***************************************************************************)
(* updateBadge                                                             *)
(***************************************************************************)
Count(list, Test(_)) == Cardinality({k \in 1..Len(list) : Test(list[k])})

\* text: the number shown, or EmptyText for ''
EmptyText == Null
Badge(text, color) == [text |-> text, color |-> color]

BadgeOf(list, old) ==
  LET stockAlerts == Count(list, LAMBDA p : p.stockStatus = "low_stock"
                                            \/ p.stockStatus = "sold_out")
      saleAlerts == Count(list, LAMBDA p : p.onSale)
      alertCount == stockAlerts + saleAlerts
  IN IF alertCount > 0
     THEN Badge(alertCount, IF stockAlerts > 0 THEN "#d31334" ELSE "#1565c0")
     ELSE Badge(EmptyText, old.color)

\* the updateBadge that ends checkAllProducts, clearChangeMarkers, and the
\* addProduct and removeProduct messages; the response goes to the caller and
\* the invocation is over
UpdateBadge(i) ==
  /\ ops[i].pc = "badge"
  /\ badge' = BadgeOf(trackedProducts, badge)
  /\ ops' = [ops EXCEPT ![i] = UnusedOp]
  /\ lastCycle' = IF ops[i].kind # "check" THEN lastCycle
                  ELSE IF \E j \in Slots \ {i} : Active(j) THEN NoCycle
                  ELSE CycleTrace(~ops[i].netError
                                    /\ \A k \in 1..Len(ops[i].log) : ~ops[i].log[k].threw,
                                  ops[i].updatedProducts)
  /\ UNCHANGED <<trackedProducts, notificationMap, notifications, site, now, faults, tabs>>

(***************************************************************************)
(* addProduct                                                              *)
(***************************************************************************)
SameIdentity(p, q) ==
  p.productId = q.productId /\ p.color = q.color /\ p.size = q.size

\* variant: no identity check
NeverTracked(list, product) == FALSE

\* variant: rejects only when every stored item has the identity
AllTracked(list, product) == Every(list, LAMBDA p : SameIdentity(p, product))

\* trackedProducts.some(...)
AlreadyTracked(list, product) == Some(list, LAMBDA p : SameIdentity(p, product))

\* lines 736-746: the baseline taken from the live page
Baseline(newProduct, liveData, time) ==
  [newProduct EXCEPT
     !.availableColors = IF Len(liveData.availableColors) > 0
                         THEN liveData.availableColors ELSE @,
     !.currentPrice = IF liveData.currentPrice # Null THEN liveData.currentPrice ELSE @,
     !.originalPrice = IF liveData.originalPrice # Null THEN liveData.originalPrice ELSE @,
     !.onSale = liveData.onSale,
     !.stockStatus = liveData.stockStatus,
     !.lastChecked = time]

\* the 'addProduct' message: the read of the list, the identity check, and the
\* baseline fetch of a product not yet tracked
StartAdd(i, product) ==
  /\ CanInvoke(i)
  /\ now' = now + 1
  /\ LET op == [UnusedOp EXCEPT !.kind = "add", !.trackedProducts = trackedProducts,
                                !.started = now']
     IN IF AlreadyTracked(trackedProducts, product)
        THEN ops' = [ops EXCEPT ![i] =
                       [op EXCEPT !.product = product, !.result = "already", !.pc = "badge"]]
        ELSE ops' = [ops EXCEPT ![i] =
                       [op EXCEPT
                          !.product = [product EXCEPT !.addedAt = now',
                                                      !.trackNewColors = TRUE,
                                                      !.lastChange = NoChange],
                          !.fetched = Issued(<<>>, product.url),
                          !.pc = "addfetch"]]
  /\ UNCHANGED <<trackedProducts, notificationMap, badge, notifications, site,
                 faults, tabs>>
  /\ lastCycle' = NoCycle

\* the baseline fetch returns; the product is pushed and the list written
AddFetchReturns(i) ==
  LET op == ops[i]
  IN /\ op.kind = "add" /\ op.pc = "addfetch"
     /\ \E resp \in Responses(op.product.url) :
          LET newProduct ==
                IF resp.ok
                THEN Baseline(op.product,
                              parseProductHtml(PageOf(resp.html), op.product), op.started)
                ELSE op.product
          IN /\ trackedProducts' = Append(op.trackedProducts, newProduct)
             /\ ops' = [ops EXCEPT ![i] =
                          [op EXCEPT !.product = newProduct, !.result = "success",
                                     !.fetched = Returned(@, resp), !.writes = @ + 1,
                                     !.netError = resp.html = "error", !.pc = "badge"]]
     /\ UNCHANGED <<notificationMap, badge, notifications, site, now,
                    faults, lastCycle, tabs>>

(***************************************************************************)
(* removeProduct                                                           *)
(***************************************************************************)
\* variant: the length itself passes the bounds check
IndexUpToLength(index, list) == index >= 0 /\ index <= Len(list)

\* indexes are those of JavaScript: the first item has index 0
IndexInRange(index, list) == index >= 0 /\ index < Len(list)

\* list.splice(index, 1)
Splice(list, index) ==
  [k \in 1..(Len(list) - 1) |-> IF k <= index THEN list[k] ELSE list[k + 1]]

Indexes == -1..Cardinality(Products)

\* the 'removeProduct' message: the read of the list and the bounds check
StartRemove(i, index) ==
  /\ CanInvoke(i)
  /\ now' = now + 1
  /\ ops' = [ops EXCEPT ![i] =
       [UnusedOp EXCEPT
          !.kind = "remove", !.trackedProducts = trackedProducts, !.index = index,
          !.result = IF IndexInRange(index, trackedProducts) THEN "none" ELSE "fail",
          !.pc = IF IndexInRange(index, trackedProducts) THEN "splice" ELSE "badge"]]
  /\ UNCHANGED <<trackedProducts, notificationMap, badge, notifications, site,
                 faults, tabs>>
  /\ lastCycle' = NoCycle

\* the write of the list without the item
RemoveWrites(i) ==
  /\ ops[i].kind = "remove" /\ ops[i].pc = "splice"
  /\ trackedProducts' = Splice(ops[i].trackedProducts, ops[i].index)
  /\ ops' = [ops EXCEPT ![i].result = "success", ![i].pc = "badge", ![i].writes = @ + 1]
  /\ UNCHANGED <<notificationMap, badge, notifications, site, now,
                 faults, lastCycle, tabs>>

\* variant: the reset also drops the time of the last check
ClearMarkersAndChecked(list) ==
  [k \in 1..Len(list) |-> [list[k] EXCEPT !.lastChange = NoChange, !.lastChecked = 0]]

(***************************************************************************)
(* clearChangeMarkers                                                      *)
(***************************************************************************)
ClearMarkers(list) == [k \in 1..Len(list) |-> [list[k] EXCEPT !.lastChange = NoChange]]

\* the 'clearChangeBadge' message: the read of the list
StartClear(i) ==
  /\ CanInvoke(i)
  /\ now' = now + 1
  /\ ops' = [ops EXCEPT ![i] =
       [UnusedOp EXCEPT !.kind = "clear", !.trackedProducts = trackedProducts,
                        !.pc = "clear"]]
  /\ UNCHANGED <<trackedProducts, notificationMap, badge, notifications, site,
                 faults, tabs>>
  /\ lastCycle' = NoCycle

\* the write of the list with the markers cleared
ClearWrites(i) ==
  /\ ops[i].kind = "clear" /\ ops[i].pc = "clear"
  /\ trackedProducts' = ClearMarkers(ops[i].trackedProducts)
  /\ ops' = [ops EXCEPT ![i].pc = "badge", ![i].writes = @ + 1]
  /\ UNCHANGED <<notificationMap, badge, notifications, site, now,
                 faults, lastCycle, tabs>>

(***************************************************************************)
(* The popup's trackNewColors toggle                                       *)
(***************************************************************************)
\* the change handler of the toggle: getProducts()
StartToggle(i, index, checked) ==
  /\ CanInvoke(i)
  /\ now' = now + 1
  /\ ops' = [ops EXCEPT ![i] =
       IF ~IndexInRange(index, trackedProducts) THEN UnusedOp   \* if (prods[idx])
       ELSE [UnusedOp EXCEPT
               !.kind = "toggle", !.trackedProducts = trackedProducts,
               !.index = index, !.checked = checked,
               !.pc = "toggle"]]
  /\ UNCHANGED <<trackedProducts, notificationMap, badge, notifications, site,
                 faults, tabs>>
  /\ lastCycle' = NoCycle

\* prods[idx].trackNewColors = checked; storage.local.set
ToggleWrites(i) ==
  /\ ops[i].kind = "toggle" /\ ops[i].pc = "toggle"
  /\ trackedProducts' = [ops[i].trackedProducts EXCEPT
                           ![ops[i].index + 1].trackNewColors = ops[i].checked]
  /\ ops' = [ops EXCEPT ![i] = UnusedOp]
  /\ UNCHANGED <<notificationMap, badge, notifications, site, now,
                 faults, lastCycle, tabs>>

(***************************************************************************)
(* The remote site                                                         *)
(***************************************************************************)
\* the site changes between two handler invocations: Init already starts from
\* any site, and a change after the last invocation is seen by no handler
RemoteChange ==
  /\ 0 < now /\ now < MaxInvocations
  /\ \E s \in Sites \ {site} : site' = s
  /\ UNCHANGED <<trackedProducts, notificationMap, badge, notifications, ops, now,
                 faults, tabs>>
  /\ lastCycle' = NoCycle

(***************************************************************************)
(* chrome.notifications.onClicked                                          *)
(***************************************************************************)
\* a tab opened by chrome.tabs.create({ url }); notifId: the click it answers
Tab(notifId, url) == [notifId |-> notifId, url |-> url]

\* delete notificationMap[notifId]
DeleteKey(map, notifId) == [x \in DOMAIN map \ {notifId} |-> map[x]]

\* notificationMap[notifId]; NoUrl for undefined
Lookup(map, notifId) == IF notifId \in DOMAIN map THEN map[notifId] ELSE NoUrl

\* chrome.notifications.clear(notifId)
Cleared(shown, notifId) == {n \in shown : n.id # notifId}

\* a click on a notification on display: the read of notificationMap
StartClick(i, notifId) ==
  /\ CanInvoke(i)
  /\ \E n \in notifications : n.id = notifId
  /\ now' = now + 1
  /\ ops' = [ops EXCEPT ![i] =
       [UnusedOp EXCEPT !.kind = "click", !.notifId = notifId,
                        !.notificationMap = notificationMap, !.pc = "click"]]
  /\ UNCHANGED <<trackedProducts, notificationMap, badge, notifications, tabs, site,
                 faults>>
  /\ lastCycle' = NoCycle

\* lines 667-671: with a url, the tab, the delete and the write of the table;
\* without one the handler goes on to line 673
ClickOpens(i) ==
  /\ ops[i].kind = "click" /\ ops[i].pc = "click"
  /\ LET url == Lookup(ops[i].notificationMap, ops[i].notifId)
     IN IF url # NoUrl                                   \* if (url)
        THEN /\ tabs' = Append(tabs, Tab(ops[i].notifId, url))
             /\ notificationMap' = DeleteKey(ops[i].notificationMap, ops[i].notifId)
             /\ ops' = [ops EXCEPT ![i].pc = "dismiss"]
             /\ UNCHANGED notifications
        ELSE /\ notifications' = Cleared(notifications, ops[i].notifId)
             /\ ops' = [ops EXCEPT ![i] = UnusedOp]
             /\ UNCHANGED <<tabs, notificationMap>>
  /\ UNCHANGED <<trackedProducts, badge, site, now, faults, lastCycle>>

\* line 673, once the write has returned
ClickClears(i) ==
  /\ ops[i].kind = "click" /\ ops[i].pc = "dismiss"
  /\ notifications' = Cleared(notifications, ops[i].notifId)
  /\ ops' = [ops EXCEPT ![i] = UnusedOp]
  /\ UNCHANGED <<trackedProducts, notificationMap, badge, tabs, site, now, faults,
                 lastCycle>>

(***************************************************************************)
(* Specifications                                                          *)
(***************************************************************************)
\* the lists the model starts from: items as addProduct stored them
InitialLists ==
  {<<>>, <<Tracked(BlackM, TRUE)>>, <<Tracked(BlackM, FALSE)>>,
   <<Tracked(BlackM, TRUE), Tracked(WhiteM, TRUE)>>,
   <<Tracked(NavyS, TRUE), Tracked(BlackM, TRUE)>>}

InitCommon ==
  /\ trackedProducts \in InitialLists
  /\ notificationMap = <<>>
  /\ badge = Badge(EmptyText, NoStr)
  /\ notifications = {}
  /\ tabs = <<>>
  /\ ops = [i \in Slots |-> UnusedOp]
  /\ site \in Sites
  /\ now = 0
  /\ lastCycle = NoCycle

\* handlers run one after the other; fetches and notifications may fail
Init == InitCommon /\ faults = TRUE

Step ==
  \/ \E i \in Slots : CheckItem(i)
  \/ \E i \in Slots : FetchReturns(i)
  \/ \E i \in Slots : MarkdownReturns(i)
  \/ \E i \in Slots : ReadNotificationMap(i)
  \/ \E i \in Slots : WriteNotificationMap(i)
  \/ \E i \in Slots : StoreProducts(i)
  \/ \E i \in Slots : UpdateBadge(i)
  \/ \E i \in Slots : AddFetchReturns(i)
  \/ \E i \in Slots : RemoveWrites(i)
  \/ \E i \in Slots : ClearWrites(i)
  \/ \E i \in Slots : ToggleWrites(i)
  \/ \E i \in Slots : ClickOpens(i)
  \/ \E i \in Slots : ClickClears(i)

Next ==
  \/ Step
  \/ Idle /\ RemoteChange
  \/ \E i \in Slots : Idle /\ AlarmFired(i)
  \/ \E i \in Slots : Idle /\ CheckNow(i)
  \/ \E i \in Slots, p \in Products : Idle /\ StartAdd(i, p)
  \/ \E i \in Slots, x \in Indexes : Idle /\ StartRemove(i, x)
  \/ \E i \in Slots : Idle /\ StartClear(i)
  \/ \E i \in Slots, x \in Indexes, b \in BOOLEAN : Idle /\ StartToggle(i, x, b)
  \/ \E i \in Slots, n \in notifications : Idle /\ StartClick(i, n.id)

Spec == Init /\ [][Next]_vars

\* handlers overlap: each await is a point where another handler may run; no
\* fetch fails and no notification is rejected; the lists of two
\* items it starts from are those of one product page
InitConc ==
  /\ InitCommon
  /\ IF Len(trackedProducts) < 2 THEN TRUE
     ELSE SamePage(trackedProducts[1].url, trackedProducts[2].url)
  /\ faults = FALSE
  /\ site \in {Site("shirt", "404", "tee"), Site("shirt_black_out", "404", "tee"),
               Site("shirt_black_gone", "shirt_md", "tee")}

NextConc ==
  \/ Step
  \/ \E i \in Slots : AlarmFired(i)
  \/ \E i \in Slots : CheckNow(i)
  \/ \E i \in Slots, p \in Products : StartAdd(i, p)
  \/ \E i \in Slots, x \in Indexes : StartRemove(i, x)
  \/ \E i \in Slots : StartClear(i)
  \/ \E i \in Slots, x \in Indexes, b \in BOOLEAN : StartToggle(i, x, b)
  \/ \E i \in Slots, n \in notifications : StartClick(i, n.id)

SpecConc == InitConc /\ [][NextConc]_vars

(***************************************************************************)
(* Properties                                                              *)
(***************************************************************************)
IsCycle(i) == ops[i].kind = "check"
\* the cycle of slot i has processed every item and written its results
Finished(i) == IsCycle(i) /\ ops[i].pc = "badge"
\* no fetch of the cycle failed in transit and no notification was rejected
CleanRun(i) ==
  ~ops[i].netError /\ \A k \in 1..Len(ops[i].log) : ~ops[i].log[k].threw
HasType(events, type) == \E k \in 1..Len(events) : events[k].type = type
CountType(events, type) == Cardinality({k \in 1..Len(events) : events[k].type = type})
Codes(colors) == {colors[k].code : k \in 1..Len(colors)}

\* C1 (as claimed): a cycle that runs right after a completed cycle, on the list
\* that cycle stored and against the same remote content, with no fetch or
\* notification failure in either, produces no change event and no notification.
C1_SecondCycleSilent ==
  \A i \in Slots :
    (/\ Finished(i) /\ CleanRun(i)
     /\ ops[i].before.clean
     /\ ops[i].trackedProducts = ops[i].before.written)
    => \A k \in 1..Len(ops[i].log) :
         ops[i].log[k].events = <<>> /\ ops[i].log[k].created = 0

\* the fetches of normal product pages (not of -MD pages) in the cycle's trace
PageFetches(i) == {a \in 1..Len(ops[i].fetched) : ~ops[i].fetched[a].url.md}

\* C2 (as claimed): in one cycle no normal product page is fetched twice,
\* whatever the outcome of the first fetch.
C2_OneFetchPerPage ==
  \A i \in Slots : IsCycle(i) =>
    \A a, b \in PageFetches(i) :
      SamePage(ops[i].fetched[a].url, ops[i].fetched[b].url) => a = b

\* C2 (amended): in one cycle a normal product page is fetched again only after
\* every earlier fetch of it failed; once a fetch of it has returned a snapshot
\* it is not fetched again.
C2_NoFetchAfterSnapshot ==
  \A i \in Slots : IsCycle(i) =>
    \A a, b \in PageFetches(i) :
      (a < b /\ SamePage(ops[i].fetched[a].url, ops[i].fetched[b].url))
        => ops[i].fetched[a].outcome = "failed"

\* two items of one page, the first fetched with success, the second served
\* from the cache
C2_Witness ==
  \E i \in Slots :
    /\ IsCycle(i) /\ Len(ops[i].log) >= 2
    /\ ops[i].trackedProducts[1].url # ops[i].trackedProducts[2].url
    /\ SamePage(ops[i].trackedProducts[1].url, ops[i].trackedProducts[2].url)
    /\ ops[i].log[1].got /\ ops[i].log[2].got
    /\ Cardinality(PageFetches(i)) = 1

\* the new_color notifications created in the cycle for the items of productId
\* pid: <<item, position among the item's events>>
NewColorCreated(i, pid) ==
  UNION {{<<k, j>> : j \in {j \in 1..ops[i].log[k].created :
                             ops[i].log[k].events[j].type = "new_color"}} :
         k \in {k \in 1..Len(ops[i].log) : ops[i].trackedProducts[k].productId = pid}}

\* the fresh snapshot of item k shows exactly one color that item k did not store
OneNewColor(i, k) ==
  /\ ops[i].log[k].got
  /\ Cardinality(Codes(ops[i].log[k].newData.availableColors)
                 \ Codes(ops[i].trackedProducts[k].availableColors)) = 1

\* C3: in one cycle, once an item has emitted new_color events, no later item
\* with the same productId emits a new_color event; and two items sharing a
\* productId, both tracking new colors with the same stored colors, whose fresh
\* snapshot shows one new color, get exactly one new_color notification between
\* them (no notification being rejected in that cycle).
C3_NewColorDedup ==
  \A i \in Slots : IsCycle(i) =>
    \A a, b \in 1..Len(ops[i].log) :
      LET p == ops[i].trackedProducts[a]
          q == ops[i].trackedProducts[b]
      IN (a < b /\ p.productId = q.productId /\ Truthy_s(p.productId)) =>
           /\ HasType(ops[i].log[a].events, "new_color")
                => ~HasType(ops[i].log[b].events, "new_color")
           /\ (/\ p.trackNewColors /\ q.trackNewColors
               /\ p.availableColors = q.availableColors
               /\ OneNewColor(i, a) /\ OneNewColor(i, b)
               /\ CleanRun(i))
                => Cardinality(NewColorCreated(i, p.productId)) = 1

\* both siblings processed, the first announced the new color
C3_Witness ==
  \E i \in Slots :
    /\ IsCycle(i) /\ Len(ops[i].log) >= 2 /\ CleanRun(i)
    /\ ops[i].trackedProducts[1].productId = ops[i].trackedProducts[2].productId
    /\ ops[i].trackedProducts[1].trackNewColors /\ ops[i].trackedProducts[2].trackNewColors
    /\ OneNewColor(i, 1) /\ OneNewColor(i, 2)
    /\ HasType(ops[i].log[1].events, "new_color")
    /\ HasType(ops[i].log[2].raw, "new_color")

\* address of the -MD page of a product URL and the page served there
ClearancePage(url) ==
  LET key == baseUrl(mdUrlOf(url))
  IN IF key \in DOMAIN site /\ site[key] # "404" THEN PageOf(site[key]) ELSE NoPage

\* the case of C4 for item k of cycle i: the tracked color C was stored, the
\* fresh snapshot lacks it and flips the status to sold_out, the clearance page
\* was served and lists C with a SKU of the item's size that has both prices
MarkdownCase(i, k) ==
  LET p == ops[i].trackedProducts[k]
      e == ops[i].log[k]
      C == getColorCodeFromUrl(p.url)
      md == ClearancePage(p.url)
  IN /\ e.got /\ ~e.threw /\ e.mdFetched # "error"
     /\ Truthy_s(C)
     /\ C \in Codes(p.availableColors)
     /\ C \notin Codes(e.newData.availableColors)
     /\ \E c \in 1..Len(e.raw) : e.raw[c].type = "status_change" /\ e.raw[c].to = "sold_out"
     /\ md.nextData = "ok"
     /\ C \in Codes(md.colors)
     /\ \E s \in 1..Len(md.skus) :
          /\ md.skus[s].color = C /\ md.skus[s].size = p.size
          /\ md.skus[s].salePrice > 0 /\ md.skus[s].listPrice > 0

\* the first SKU of color C and the item's size on the clearance page
ClearanceSku(p) ==
  LET md == ClearancePage(p.url)
      s == CHOOSE s \in 1..Len(md.skus) :
             /\ md.skus[s].color = getColorCodeFromUrl(p.url) /\ md.skus[s].size = p.size
             /\ \A t \in 1..(s - 1) :
                  ~(md.skus[t].color = getColorCodeFromUrl(p.url) /\ md.skus[t].size = p.size)
  IN md.skus[s]

\* the URL built from the identifiers of the clearance page
ClearanceUrl(p) ==
  LET md == ClearancePage(p.url)
  IN Url("us", FALSE, md.summary.parentCat, md.summary.unifiedId, FALSE,
         md.summary.productId, getColorCodeFromUrl(p.url), p.size)

\* C4: in the markdown case the item has exactly one moved_to_markdown event,
\* carrying the sale and list price of the clearance page, and no status_change
\* event; it is stored with stockStatus in_stock and markdownUrl the clearance URL.
C4_MarkdownResolution ==
  \A i \in Slots : IsCycle(i) =>
    \A k \in 1..Len(ops[i].log) :
      MarkdownCase(i, k) =>
        LET p == ops[i].trackedProducts[k]
            e == ops[i].log[k]
            sku == ClearanceSku(p)
        IN /\ CountType(e.events, "moved_to_markdown") = 1
           /\ \E j \in 1..Len(e.events) :
                e.events[j] = MovedToMarkdown(sku.salePrice, sku.listPrice)
           /\ ~HasType(e.events, "status_change")
           /\ e.created = Len(e.events)
           /\ ops[i].updatedProducts[k].stockStatus = "in_stock"
           /\ ops[i].updatedProducts[k].markdownUrl = ClearanceUrl(p)
           /\ Finished(i) =>
                /\ Len(trackedProducts) >= k
                /\ trackedProducts[k].stockStatus = "in_stock"
                /\ trackedProducts[k].markdownUrl = ClearanceUrl(p)
                /\ SameIdentity(trackedProducts[k], p)

\* a finished cycle with an item in the markdown case
C4_Witness ==
  \E i \in Slots : Finished(i) /\ \E k \in 1..Len(ops[i].log) : MarkdownCase(i, k)

\* item k of the cycle failed: no snapshot was obtained, or its processing threw
ItemFailed(i, k) == ~ops[i].log[k].got \/ ops[i].log[k].threw

\* C5: an item whose fetch or processing failed is in the updated list, and in
\* the stored list once the cycle has written, exactly as it was read; every
\* other item is there too, processed (lastChecked stamped by this cycle), and
\* no item is missing.
C5_FailureIsolation ==
  \A i \in Slots : IsCycle(i) =>
    /\ Len(ops[i].updatedProducts) = Len(ops[i].log)
    /\ \A k \in 1..Len(ops[i].log) :
         k <= Len(ops[i].updatedProducts) =>
           IF ItemFailed(i, k)
           THEN ops[i].updatedProducts[k] = ops[i].trackedProducts[k]
           ELSE /\ ops[i].updatedProducts[k].lastChecked = ops[i].started
                /\ SameIdentity(ops[i].updatedProducts[k], ops[i].trackedProducts[k])
                /\ ops[i].updatedProducts[k].stockStatus = ops[i].log[k].newData.stockStatus
                   \/ ops[i].log[k].md.found
    /\ Finished(i) =>
         /\ Len(ops[i].log) = Len(ops[i].trackedProducts)
         /\ trackedProducts = ops[i].updatedProducts

\* a finished cycle over two items, of which one failed and the other was
\* processed and changed
C5_Witness ==
  \E i \in Slots :
    /\ Finished(i) /\ Len(ops[i].log) = 2
    /\ \E k, m \in 1..2 :
         /\ ItemFailed(i, k) /\ ~ItemFailed(i, m)
         /\ trackedProducts[k] = ops[i].trackedProducts[k]
         /\ trackedProducts[m] # ops[i].trackedProducts[m]

\* the notifications cycle i has created for item k: the events themselves
CreatedFor(i, k) == {ops[i].log[k].events[j] : j \in 1..ops[i].log[k].created}

\* C6 (as claimed): when a cycle started by the alarm and a cycle started by
\* checkNow overlap and both see the same stored item against the same remote
\* content, no change of that item is notified by both.
C6_ExactlyOnce ==
  \A i, j \in Slots :
    (/\ IsCycle(i) /\ IsCycle(j)
     /\ ops[i].trigger = "alarm" /\ ops[j].trigger = "checkNow")
    => \A k \in 1..Len(ops[i].log) :
         (/\ k <= Len(ops[j].log)
          /\ ops[i].trackedProducts[k] = ops[j].trackedProducts[k])
         => CreatedFor(i, k) \cap CreatedFor(j, k) = {}

\* slot i takes a step of its cycle
CycleStep(i) == IsCycle(i) /\ ops'[i] # ops[i]

\* C7: a step of a cycle writes the stored list only when every item of the
\* list it read has been processed, at most once, and then it writes the
\* complete updated list; a cycle that has finished has written exactly once.
C7_SingleBatchWrite ==
  [][\A i \in Slots :
       /\ CycleStep(i) =>
            IF ops[i].pc \in {"loop", "fetch", "mdfetch", "flushset", "badge"}
               \/ (ops[i].pc = "flush" /\ Len(ops[i].pendingNotifications) > 0)
            THEN trackedProducts' = trackedProducts
                 /\ (IsCycle(i)' => ops'[i].writes = ops[i].writes)
            ELSE /\ ops[i].writes = 0 /\ ops'[i].writes = 1
                 /\ Len(ops[i].log) = Len(ops[i].trackedProducts)
                 /\ Len(ops[i].updatedProducts) = Len(ops[i].trackedProducts)
                 /\ trackedProducts' = ops[i].updatedProducts
       /\ Finished(i) => ops[i].writes = 1
    ]_vars

\* a cycle over two items has written a list that differs from the one it read
C7_Witness ==
  \E i \in Slots :
    /\ Finished(i) /\ ops[i].writes = 1
    /\ Len(ops[i].trackedProducts) = 2
    /\ trackedProducts = ops[i].updatedProducts
    /\ trackedProducts[1] # ops[i].trackedProducts[1]
    /\ trackedProducts[2] # ops[i].trackedProducts[2]

\* C8: no two items of the stored list have the same productId, color and size.
C8_IdentityUnique ==
  \A a, b \in 1..Len(trackedProducts) :
    (a # b) => ~SameIdentity(trackedProducts[a], trackedProducts[b])

\* an addProduct has stored its product while another handler is in flight
C8_Witness ==
  \E i, j \in Slots :
    /\ i # j /\ Active(j)
    /\ ops[i].kind = "add" /\ ops[i].pc = "badge" /\ ops[i].result = "success"
    /\ Len(trackedProducts) >= 2
    /\ trackedProducts[Len(trackedProducts)] = ops[i].product

\* the list holds an item with the productId, color and size of the product
HoldsTriple(list, product) ==
  \E k \in 1..Len(list) :
    /\ list[k].productId = product.productId
    /\ list[k].color = product.color
    /\ list[k].size = product.size

\* C9: addProduct of a product whose triple is in the list it read answers
\* {success: false} with the reason, fetches nothing, writes nothing, and the
\* stored list is the list it read.
C9_AddRejected ==
  \A i \in Slots :
    (ops[i].kind = "add" /\ HoldsTriple(ops[i].trackedProducts, ops[i].product)) =>
      /\ ops[i].pc = "badge" /\ ops[i].result = "already"
      /\ ops[i].fetched = <<>>
      /\ ops[i].writes = 0
      /\ trackedProducts = ops[i].trackedProducts

\* a second color of an already tracked product line is in the list and an
\* addProduct of a tracked triple has been rejected
C9_Witness ==
  \E i \in Slots :
    /\ ops[i].kind = "add" /\ ops[i].result = "already"
    /\ Len(ops[i].trackedProducts) = 2
    /\ HoldsTriple(ops[i].trackedProducts, ops[i].product)
    /\ ~SameIdentity(ops[i].trackedProducts[2], ops[i].product)

\* C10: removeProduct with an index outside 0..length-1 of the list it read
\* answers {success: false} and writes nothing; with an index inside, the list
\* it stores is the list it read without the item at that index, the other
\* items in their order, and it answers {success: true}.
C10_RemoveProduct ==
  \A i \in Slots :
    (ops[i].kind = "remove") =>
      LET list == ops[i].trackedProducts
          index == ops[i].index
      IN IF index < 0 \/ index > Len(list) - 1
         THEN /\ ops[i].pc = "badge" /\ ops[i].result = "fail"
              /\ ops[i].writes = 0
              /\ trackedProducts = list
         ELSE \/ ops[i].pc = "splice" /\ ops[i].writes = 0 /\ trackedProducts = list
              \/ /\ ops[i].pc = "badge" /\ ops[i].result = "success"
                 /\ ops[i].writes = 1
                 /\ Len(trackedProducts) = Len(list) - 1
                 /\ \A k \in 1..Len(trackedProducts) :
                      trackedProducts[k] = IF k <= index THEN list[k] ELSE list[k + 1]

\* the first of two items has been removed and the second has moved up
C10_Witness ==
  \E i \in Slots :
    /\ ops[i].kind = "remove" /\ ops[i].pc = "badge" /\ ops[i].result = "success"
    /\ ops[i].index = 0 /\ Len(ops[i].trackedProducts) = 2
    /\ trackedProducts = <<ops[i].trackedProducts[2]>>

\* the three values of stockStatus
StockStatuses == {"in_stock", "low_stock", "sold_out"}

\* C11: the stockStatus of every stored item, of every item a cycle has merged
\* and of the product an addProduct has taken its baseline for, is one of
\* in_stock, low_stock and sold_out.
C11_StockStatusEnum ==
  /\ \A k \in 1..Len(trackedProducts) : trackedProducts[k].stockStatus \in StockStatuses
  /\ \A i \in Slots :
       /\ \A k \in 1..Len(ops[i].trackedProducts) :
            ops[i].trackedProducts[k].stockStatus \in StockStatuses
       /\ \A k \in 1..Len(ops[i].updatedProducts) :
            ops[i].updatedProducts[k].stockStatus \in StockStatuses
       /\ \A k \in 1..Len(ops[i].log) :
            ops[i].log[k].newData.stockStatus \in StockStatuses
       /\ ops[i].product.stockStatus \in StockStatuses

\* a cycle has stored, as in_stock, an item that the normal page showed as
\* sold_out and that it found on the clearance page
C11_Witness ==
  \E i \in Slots :
    /\ Finished(i)
    /\ \E k \in 1..Len(ops[i].log) :
         /\ ops[i].log[k].got /\ ~ops[i].log[k].threw
         /\ ops[i].log[k].md.found
         /\ trackedProducts[k].stockStatus = "in_stock"
         /\ ops[i].log[k].newData.stockStatus = "sold_out"

\* the page served for the product's own address
ServedPage(product) ==
  LET key == baseUrl(product.url)
  IN IF key \in DOMAIN site /\ site[key] # "404" THEN PageOf(site[key]) ELSE NoPage

\* the SKUs of the page for the product's own color and size
OwnSkus(product, page) ==
  {s \in 1..Len(page.skus) :
     /\ page.skus[s].color = getColorCodeFromUrl(product.url)
     /\ \/ ~SizeGiven(product.size)
        \/ page.skus[s].size = product.size}

\* the extraction for the product's own color and size finds a sale price
\* strictly below the list price
OwnSalePrice(product) ==
  LET page == ServedPage(product)
      own == OwnSkus(product, page)
  IN /\ page.nextData = "ok"
     /\ own # {}
     /\ LET s == CHOOSE s \in own : \A t \in own : s <= t
        IN /\ page.skus[s].salePrice > 0 /\ page.skus[s].listPrice > 0
           /\ page.skus[s].salePrice < page.skus[s].listPrice

\* item k of cycle i was merged from a snapshot
Merged(i, k) == ops[i].log[k].got /\ ~ops[i].log[k].threw

\* C12 (as claimed): after a cycle, an item merged from a snapshot is stored
\* with onSale true exactly when the page shows, for the item's own color and
\* size, a sale price strictly below the list price.
C12_SaleInvariant ==
  \A i \in Slots : Finished(i) =>
    \A k \in 1..Len(ops[i].log) :
      Merged(i, k) =>
        (trackedProducts[k].onSale <=> OwnSalePrice(ops[i].trackedProducts[k]))

(***************************************************************************)
(* detectChanges on its own: every slot holds the same stored item and the *)
(* same fresh snapshot, and calls detectChanges on them                    *)
(***************************************************************************)
\* null, the 0 that parseFloat gives for a "$0", and two prices
DiffPrices == {Null, 0, 58, 78}
DiffStoredColors == {<<>>, <<Black>>, <<Black, White>>}
DiffFreshColors == {<<>>, <<Black, White>>, <<White, Red>>, <<Red, White, Black>>}

DiffItems ==
  {[Tracked(BlackM, t) EXCEPT !.stockStatus = s, !.currentPrice = p, !.onSale = o,
                              !.availableColors = c] :
     t \in BOOLEAN, s \in StockStatuses, p \in DiffPrices, o \in BOOLEAN,
     c \in DiffStoredColors}

DiffSnapshots ==
  {Snapshot(p, Null, o, s, c) :
     p \in DiffPrices, o \in BOOLEAN, s \in StockStatuses, c \in DiffFreshColors}

InitDiff ==
  /\ trackedProducts = <<>>
  /\ notificationMap = <<>>
  /\ badge = Badge(EmptyText, NoStr)
  /\ notifications = {}
  /\ tabs = <<>>
  /\ site = Site("shirt", "404", "tee")
  /\ now = 0
  /\ faults = FALSE
  /\ lastCycle = NoCycle
  /\ \E item \in DiffItems, snapshot \in DiffSnapshots :
       ops = [i \in Slots |->
                [UnusedOp EXCEPT !.kind = "diff", !.pc = "diff",
                                 !.product = item, !.newData = snapshot]]

\* const changes = detectChanges(product, newData)
CallDetectChanges(i) ==
  /\ ops[i].kind = "diff" /\ ops[i].pc = "diff"
  /\ ops' = [ops EXCEPT ![i].changes = detectChanges(ops[i].product, ops[i].newData),
                        ![i].pc = "diffed"]
  /\ UNCHANGED <<trackedProducts, notificationMap, badge, notifications, site, now,
                 faults, lastCycle, tabs>>

NextDiff == \E i \in Slots : CallDetectChanges(i)

SpecDiff == InitDiff /\ [][NextDiff]_vars

\* slot i has called detectChanges
Diffed(i) == ops[i].kind = "diff" /\ ops[i].pc = "diffed"
\* the events of a type in what the call returned
OfType(i, type) == SelectSeq(ops[i].changes, LAMBDA c : c.type = type)

\* C13: detectChanges returns a status_change event exactly when the stored
\* and the fresh stockStatus differ, and then exactly one, with from the stored
\* and to the fresh status.
C13_StatusChange ==
  \A i \in Slots : Diffed(i) =>
    LET old == ops[i].product.stockStatus
        new == ops[i].newData.stockStatus
    IN OfType(i, "status_change")
         = IF old # new
           THEN <<[type |-> "status_change", from |-> old, to |-> new,
                   pfrom |-> Null, pto |-> Null, color |-> NoStr,
                   salePrice |-> Null, listPrice |-> Null]>>
           ELSE <<>>

\* detectChanges has reported the return from sold_out to in_stock
C13_Witness ==
  \E i \in Slots :
    /\ Diffed(i)
    /\ ops[i].product.stockStatus = "sold_out" /\ ops[i].newData.stockStatus = "in_stock"
    /\ Len(OfType(i, "status_change")) = 1

\* C14 (as claimed): detectChanges returns a price_change event exactly when
\* the stored and the fresh currentPrice are both known (not null) and differ,
\* and then exactly one, with from the stored and to the fresh price.
C14_PriceChange ==
  \A i \in Slots : Diffed(i) =>
    LET old == ops[i].product.currentPrice
        new == ops[i].newData.currentPrice
    IN OfType(i, "price_change")
         = IF old # Null /\ new # Null /\ old # new
           THEN <<[type |-> "price_change", from |-> NoStr, to |-> NoStr,
                   pfrom |-> old, pto |-> new, color |-> NoStr,
                   salePrice |-> Null, listPrice |-> Null]>>
           ELSE <<>>

\* C14: detectChanges returns a price_change event exactly when the stored and
\* the fresh currentPrice are both truthy (neither null nor 0) and differ, and
\* then exactly one, with from the stored and to the fresh price; a null stored
\* price gives none.
C14_PriceChangeTruthy ==
  \A i \in Slots : Diffed(i) =>
    LET old == ops[i].product.currentPrice
        new == ops[i].newData.currentPrice
    IN OfType(i, "price_change")
         = IF old \notin {Null, 0} /\ new \notin {Null, 0} /\ old # new
           THEN <<[type |-> "price_change", from |-> NoStr, to |-> NoStr,
                   pfrom |-> old, pto |-> new, color |-> NoStr,
                   salePrice |-> Null, listPrice |-> Null]>>
           ELSE <<>>

\* a price has been filled in for an item that had none, with no price_change
C14_Witness ==
  \E i \in Slots :
    /\ Diffed(i)
    /\ ops[i].product.currentPrice = Null /\ ops[i].newData.currentPrice = 58
    /\ OfType(i, "price_change") = <<>>

\* C15: detectChanges returns a went_on_sale event exactly when the stored
\* onSale is false and the fresh onSale is true, and then exactly one; the end
\* of a sale gives no event of a type of its own.
C15_WentOnSale ==
  \A i \in Slots : Diffed(i) =>
    /\ Len(OfType(i, "went_on_sale"))
         = IF ~ops[i].product.onSale /\ ops[i].newData.onSale THEN 1 ELSE 0
    /\ \A k \in 1..Len(ops[i].changes) :
         ops[i].changes[k].type \in {"status_change", "price_change", "went_on_sale",
                                     "new_color"}

\* a sale has ended and detectChanges returned no event at all
C15_Witness ==
  \E i \in Slots :
    /\ Diffed(i)
    /\ ops[i].product.onSale /\ ~ops[i].newData.onSale
    /\ ops[i].changes = <<>>

\* the codes of the fresh colors that the stored colors lack, in the order of
\* the fresh list
FreshCodes(i) ==
  SelectSeq(ops[i].newData.availableColors,
            LAMBDA c : c.code \notin Codes(ops[i].product.availableColors))

\* C16 (as claimed): detectChanges returns new_color events only when
\* trackNewColors is true and the stored and the fresh color list are both
\* non-empty, and then one per color code of the fresh list that the stored
\* list lacks.
C16_NewColor ==
  \A i \in Slots : Diffed(i) =>
    Len(OfType(i, "new_color"))
      = IF /\ ops[i].product.trackNewColors
           /\ ops[i].product.availableColors # <<>>
           /\ ops[i].newData.availableColors # <<>>
        THEN Len(FreshCodes(i)) ELSE 0

\* the place of an event type in the order of detectChanges
TypeRank(type) ==
  CASE type = "status_change" -> 1
    [] type = "price_change" -> 2
    [] type = "went_on_sale" -> 3
    [] OTHER -> 4

BadgeItems(product) ==
  {[Tracked(product, TRUE) EXCEPT !.stockStatus = s, !.onSale = o] :
     s \in StockStatuses, o \in BOOLEAN}

BadgeLists ==
  {<<>>} \cup {<<a>> : a \in BadgeItems(BlackM)}
         \cup {<<a, b>> : a \in BadgeItems(BlackM), b \in BadgeItems(WhiteM)}

InitBadge ==
  /\ trackedProducts \in BadgeLists
  /\ notificationMap = <<>>
  /\ badge \in {Badge(EmptyText, NoStr), Badge(2, "#d31334")}
  /\ notifications = {}
  /\ tabs = <<>>
  /\ site = Site("shirt", "404", "tee")
  /\ now = 1
  /\ faults = FALSE
  /\ lastCycle = NoCycle
  /\ ops = [i \in Slots |->
              IF i = 1
              THEN [UnusedOp EXCEPT !.kind = "clear", !.pc = "clear",
                                    !.trackedProducts = trackedProducts]
              ELSE UnusedOp]

NextBadge ==
  \/ \E i \in Slots : ClearWrites(i)
  \/ \E i \in Slots : UpdateBadge(i)

SpecBadge == InitBadge /\ [][NextBadge]_vars

\* the items that need attention: low_stock, sold_out or on sale
NeedAttention(list) ==
  {k \in 1..Len(list) : list[k].stockStatus \in {"low_stock", "sold_out"} \/ list[k].onSale}

\* C18 (as claimed): once updateBadge has run, the badge shows the number of
\* items that are low_stock, sold_out or on sale, each counted once, and its
\* text is empty exactly when there is none.
C18_AttentionCount ==
  Idle =>
    badge.text = IF NeedAttention(trackedProducts) = {} THEN EmptyText
                 ELSE Cardinality(NeedAttention(trackedProducts))


\* <<k, j>>: the invocation has created the notification of event j of item k
CreatedIds(op) ==
  UNION {{<<k, j>> : j \in 1..op.log[k].created} : k \in 1..Len(op.log)}

\* C19: no step of a cycle removes or changes an entry of notificationMap, and
\* when the cycle has written its results every notification it created has an
\* entry: the clearance URL for moved_to_markdown, the URL of its item otherwise.
C19_NotificationEntries ==
  [][\A i \in Slots :
       CycleStep(i) =>
         /\ \A id \in DOMAIN notificationMap :
              id \in DOMAIN notificationMap' /\ notificationMap'[id] = notificationMap[id]
         /\ ops'[i].pc = "badge" =>
              \A x \in CreatedIds(ops'[i]) :
                LET p == ops'[i].trackedProducts[x[1]]
                    e == ops'[i].log[x[1]].events[x[2]]
                    id == <<ops'[i].started, x[1], x[2]>>
                IN /\ id \in DOMAIN notificationMap'
                   /\ notificationMap'[id] =
                        IF e.type = "moved_to_markdown" THEN ClearanceUrl(p) ELSE p.url]_vars

\* a finished cycle that created a moved_to_markdown notification and another
\* one, with an entry of an earlier cycle in the map
C19_Witness ==
  \E i \in Slots :
    /\ Finished(i)
    /\ \E id \in DOMAIN notificationMap : id[1] < ops[i].started
    /\ \E x, y \in CreatedIds(ops[i]) :
         /\ ops[i].log[x[1]].events[x[2]].type = "moved_to_markdown"
         /\ ops[i].log[y[1]].events[y[2]].type # "moved_to_markdown"


(***************************************************************************)
(* The click handler on its own: up to two notifications are on display,   *)
(* each with or without its entry in the table, and clicks may overlap     *)
(***************************************************************************)
ClickNotifications ==
  {Notification(NotifId(0, 1, 1), BlackM, StatusChange("in_stock", "sold_out")),
   Notification(NotifId(0, 2, 1), WhiteM, StatusChange("in_stock", "low_stock"))}

ClickMaps ==
  UNION {[ids -> {BlackM.url, WhiteM.url}] :
           ids \in SUBSET {n.id : n \in ClickNotifications}}

InitClick ==
  /\ trackedProducts = <<Tracked(BlackM, TRUE), Tracked(WhiteM, TRUE)>>
  /\ notificationMap \in ClickMaps
  /\ badge = Badge(EmptyText, NoStr)
  /\ notifications \in SUBSET ClickNotifications
  /\ tabs = <<>>
  /\ ops = [i \in Slots |-> UnusedOp]
  /\ site = Site("shirt", "404", "tee")
  /\ now = 0
  /\ faults = FALSE
  /\ lastCycle = NoCycle

NextClick ==
  \/ \E i \in Slots, n \in notifications : StartClick(i, n.id)
  \/ \E i \in Slots : ClickOpens(i)
  \/ \E i \in Slots : ClickClears(i)

SpecClick == InitClick /\ [][NextClick]_vars

\* the click of slot i is handled in this step
ClickHandled(i) == ops[i].kind = "click" /\ ops[i].pc = "click" /\ ops'[i].pc # "click"

\* C20 (as claimed): handling a click on an id that is in notificationMap opens
\* exactly one tab at the mapped URL and removes exactly that entry; handling a
\* click on an id that is not in the map opens no tab and leaves the map
\* unchanged, so a second click on the same id opens nothing.
C20_ClickOnce ==
  [][\A i \in Slots :
       ClickHandled(i) =>
         LET id == ops[i].notifId
         IN IF id \in DOMAIN notificationMap
            THEN /\ tabs' = Append(tabs, [notifId |-> id, url |-> notificationMap[id]])
                 /\ notificationMap' =
                      [x \in DOMAIN notificationMap \ {id} |-> notificationMap[x]]
            ELSE /\ tabs' = tabs
                 /\ notificationMap' = notificationMap]_vars


\* the fields of an item other than lastChange
OtherFields ==
  {"productId", "color", "size", "name", "url", "region", "currentPrice",
   "originalPrice", "onSale", "stockStatus", "availableColors", "trackNewColors",
   "addedAt", "lastChecked", "markdownUrl"}

\* the write of the clearChangeMarkers invocation of slot i happens in this step
ClearStep(i) == ops[i].kind = "clear" /\ ops[i].pc = "clear" /\ ops'[i].pc # "clear"

\* C21: the write of clearChangeMarkers stores a list with as many items as the
\* stored one, in the same order, each with lastChange null and every other
\* field as it was.
C21_ClearFrame ==
  [][\A i \in Slots :
       ClearStep(i) =>
         /\ Len(trackedProducts') = Len(trackedProducts)
         /\ \A k \in 1..Len(trackedProducts) :
              /\ DOMAIN trackedProducts'[k] = DOMAIN trackedProducts[k]
              /\ trackedProducts'[k].lastChange = NoChange
              /\ \A f \in OtherFields : trackedProducts'[k][f] = trackedProducts[k][f]]_vars

\* clearChangeMarkers has written a list of two items, of which one had a
\* marker, had been checked and had moved to the clearance page
C21_Witness ==
  \E i \in Slots :
    /\ ops[i].kind = "clear" /\ ops[i].pc = "badge"
    /\ Len(ops[i].trackedProducts) = 2 /\ Len(trackedProducts) = 2
    /\ \E k \in 1..2 :
         /\ ops[i].trackedProducts[k].lastChange # NoChange
         /\ ops[i].trackedProducts[k].lastChecked > 0
         /\ ops[i].trackedProducts[k].markdownUrl # NoUrl
         /\ trackedProducts[k].lastChange = NoChange


\* the three conditions of the markdown trigger, for a stored item, the events
\* detectChanges gave for it and the snapshot of the normal page
TriggerHolds(p, raw, newData) ==
  /\ getColorCodeFromUrl(p.url) \notin Codes(newData.availableColors)
  /\ \/ \E c \in 1..Len(raw) : raw[c].type = "status_change" /\ raw[c].to = "sold_out"
     \/ p.trackNewColors
  /\ ~p.url.md /\ ~p.url.html

\* C22: a cycle has fetched, or is fetching, the derived -MD address for an item
\* only if the tracked color is absent from the fresh color set, a status_change
\* to sold_out was detected or trackNewColors is on, and the item's URL is not
\* that of a clearance page.
C22_MarkdownTrigger ==
  \A i \in Slots : IsCycle(i) =>
    /\ \A k \in 1..Len(ops[i].log) :
         ops[i].log[k].mdFetched # "none" =>
           TriggerHolds(ops[i].trackedProducts[k], ops[i].log[k].raw, ops[i].log[k].newData)
    /\ ops[i].pc = "mdfetch" =>
         TriggerHolds(ops[i].trackedProducts[ops[i].idx], ops[i].changes, ops[i].newData)

\* a finished cycle has fetched the -MD address for an item without
\* trackNewColors, on a status_change to sold_out
C22_Witness ==
  \E i \in Slots :
    /\ Finished(i)
    /\ \E k \in 1..Len(ops[i].log) :
         /\ ops[i].log[k].mdFetched # "none"
         /\ ~ops[i].trackedProducts[k].trackNewColors



(***************************************************************************)
(* Cycles against pages that are served without product data: from the     *)
(* product page the extraction finds no price, no SKU and no color; the    *)
(* clearance page has no payload to look the color up in                   *)
(***************************************************************************)
NoDataSites ==
  {Site("shirt_nodata", "404", "tee"), Site("shirt_nodata", "shirt_md", "tee"),
   Site("shirt_black_gone", "shirt_nodata", "tee"), Site("shirt_black_gone", "404", "tee")}

InitNoData ==
  /\ trackedProducts \in InitialLists
  /\ notificationMap = <<>>
  /\ badge = Badge(EmptyText, NoStr)
  /\ notifications = {}
  /\ tabs = <<>>
  /\ ops = [i \in Slots |-> UnusedOp]
  /\ site \in NoDataSites
  /\ now = 0
  /\ faults = TRUE
  /\ lastCycle = NoCycle

NextNoData ==
  \/ \E i \in Slots : Idle /\ AlarmFired(i)
  \/ \E i \in Slots : Idle /\ CheckNow(i)
  \/ \E i \in Slots : CheckItem(i)
  \/ \E i \in Slots : FetchReturns(i)
  \/ \E i \in Slots : MarkdownReturns(i)
  \/ \E i \in Slots : ReadNotificationMap(i)
  \/ \E i \in Slots : WriteNotificationMap(i)
  \/ \E i \in Slots : StoreProducts(i)
  \/ \E i \in Slots : UpdateBadge(i)

SpecNoData == InitNoData /\ [][NextNoData]_vars

\* C23 (as claimed): for an item whose snapshot has an empty availableColors, the
\* cycle fetches no clearance page and produces no moved_to_markdown event.
C23_EmptyColorsNoMarkdown ==
  \A i \in Slots : IsCycle(i) =>
    /\ \A k \in 1..Len(ops[i].log) :
         (ops[i].log[k].got /\ ops[i].log[k].newData.availableColors = <<>>) =>
           /\ ops[i].log[k].mdFetched = "none"
           /\ ~HasType(ops[i].log[k].events, "moved_to_markdown")
    /\ ops[i].pc = "mdfetch" => ops[i].newData.availableColors # <<>>


\* the fetch of the -MD address for item k of cycle i has returned
MdOutcomes(i, k) ==
  {ops[i].fetched[f].outcome :
     f \in {g \in 1..Len(ops[i].fetched) :
              ops[i].fetched[g].url = mdUrlOf(ops[i].trackedProducts[k].url)}}

\* checkMarkdownTransition failed for item k of cycle i: the fetch failed in
\* transit or was answered with an HTTP error, or the page has no payload
MdFailed(i, k) ==
  /\ ops[i].log[k].got
  /\ ~ops[i].trackedProducts[k].url.md
  /\ \/ "failed" \in MdOutcomes(i, k)
     \/ "ok" \in MdOutcomes(i, k) /\ PageOf(ops[i].log[k].mdFetched).nextData # "ok"

\* C24: when checkMarkdownTransition fails for an item, the item has no
\* moved_to_markdown event and keeps every event detectChanges gave other than
\* deduplicated new_color events, the status_change to sold_out included; unless a
\* notification is rejected all of them are notified and the item is pushed
\* with the stockStatus of the snapshot and its markdownUrl as it was; the
\* cycle goes on to the next item.
C24_MarkdownFailure ==
  \A i \in Slots : IsCycle(i) =>
    \A k \in 1..Len(ops[i].log) :
      MdFailed(i, k) =>
        LET e == ops[i].log[k]
            p == ops[i].trackedProducts[k]
        IN /\ ~HasType(e.events, "moved_to_markdown")
           /\ \A c \in 1..Len(e.raw) :
                e.raw[c].type # "new_color" =>
                  \E j \in 1..Len(e.events) : e.events[j] = e.raw[c]
           /\ Len(ops[i].updatedProducts) >= k
           /\ ops[i].idx > k
           /\ ~e.threw =>
                /\ e.created = Len(e.events)
                /\ ops[i].updatedProducts[k].stockStatus = e.newData.stockStatus
                /\ ops[i].updatedProducts[k].markdownUrl = p.markdownUrl

\* a finished cycle in which the clearance page of an item that went sold_out
\* was served without payload, and the sold_out change was notified
C24_Witness ==
  \E i \in Slots :
    /\ Finished(i)
    /\ \E k \in 1..Len(ops[i].log) :
         /\ MdFailed(i, k) /\ ~ops[i].log[k].threw
         /\ "ok" \in MdOutcomes(i, k)
         /\ \E c \in 1..Len(ops[i].log[k].events) :
              /\ c <= ops[i].log[k].created
              /\ ops[i].log[k].events[c].type = "status_change"
              /\ ops[i].log[k].events[c].to = "sold_out"
         /\ trackedProducts[k].stockStatus = "sold_out"


(***************************************************************************)
(* sendNotification on its own: one call for an item and an event, with    *)
(* notifications of earlier cycles on display and their entries stored     *)
(***************************************************************************)
\* an event of a type the switch does not know
Unrecognized == Event("restocked", NoStr, NoStr, Null, Null, NoStr, Null, Null)

NotifyEvents ==
  {StatusChange(f, t) : f, t \in StockStatuses}
    \cup {PriceChange(78, 58), PriceChange(58, 78), WentOnSale, NewColor("Red"),
          MovedToMarkdown(40, 60), MovedToMarkdown(Unknown, Unknown), Unrecognized}

InitNotify ==
  /\ trackedProducts = <<Tracked(BlackM, TRUE), Tracked(NavyS, FALSE)>>
  /\ notificationMap \in ClickMaps
  /\ badge = Badge(EmptyText, NoStr)
  /\ notifications \in SUBSET ClickNotifications
  /\ tabs = <<>>
  /\ site = Site("shirt", "404", "tee")
  /\ now = 1
  /\ faults = FALSE
  /\ lastCycle = NoCycle
  /\ \E k \in 1..2, change \in NotifyEvents :
       ops = [i \in Slots |->
                IF i = 1
                THEN [UnusedOp EXCEPT !.kind = "notify", !.pc = "notify", !.started = 1,
                                      !.product = trackedProducts[k], !.change = change]
                ELSE UnusedOp]

\* the call: chrome.notifications.create for a known type, and the return value
CallSendNotification(i) ==
  /\ ops[i].kind = "notify" /\ ops[i].pc = "notify"
  /\ LET r == sendNotification(ops[i].product, ops[i].change, NotifId(ops[i].started, 1, 1))
     IN /\ notifications' = notifications \cup r.created
        /\ ops' = [ops EXCEPT ![i].notif = r.result, ![i].pc = "notified"]
  /\ UNCHANGED <<trackedProducts, notificationMap, badge, tabs, site, now, faults,
                 lastCycle>>

NextNotify == \E i \in Slots : CallSendNotification(i)

SpecNotify == InitNotify /\ [][NextNotify]_vars

\* sendNotification returns in this step
NotifyStep(i) == ops[i].kind = "notify" /\ ops[i].pc = "notify" /\ ops'[i].pc = "notified"

\* C25: for an event of one of the five types sendNotification adds exactly one
\* notification, of the item and the event, and returns its id with the item's
\* URL; for any other type it adds none and returns null; it leaves the stored
\* list and notificationMap as they are.
C25_SendNotification ==
  [][\A i \in Slots :
       NotifyStep(i) =>
         /\ trackedProducts' = trackedProducts
         /\ notificationMap' = notificationMap
         /\ IF ops[i].change.type \in
                 {"status_change", "price_change", "went_on_sale", "new_color",
                  "moved_to_markdown"}
            THEN /\ Cardinality(notifications') = Cardinality(notifications) + 1
                 /\ notifications \subseteq notifications'
                 /\ \A n \in notifications' \ notifications :
                      /\ n.id = ops'[i].notif.id
                      /\ n.change = ops[i].change
                      /\ n.productId = ops[i].product.productId
                      /\ n.color = ops[i].product.color
                 /\ ops'[i].notif.url = ops[i].product.url
            ELSE /\ notifications' = notifications
                 /\ ops'[i].notif = [id |-> <<>>, url |-> NoUrl]]_vars

\* sendNotification has returned an id for a moved_to_markdown event while
\* other notifications were on display and entries were stored
C25_Witness ==
  \E i \in Slots :
    /\ ops[i].kind = "notify" /\ ops[i].pc = "notified"
    /\ ops[i].change.type = "moved_to_markdown"
    /\ ops[i].notif.url = ops[i].product.url
    /\ Cardinality(notifications) = 3
    /\ notificationMap # <<>>


\* the fetches cycle i has issued on behalf of item k: of its URL and of the
\* -MD address derived from it
FetchesFor(i, k) ==
  {f \in 1..Len(ops[i].fetched) :
     ops[i].fetched[f].url \in {ops[i].trackedProducts[k].url,
                                mdUrlOf(ops[i].trackedProducts[k].url)}}

\* C26 (as claimed): a cycle issues at most one fetch on behalf of each item of
\* the list it loaded.
C26_OneFetchPerProduct ==
  \A i \in Slots : IsCycle(i) =>
    \A k \in 1..Len(ops[i].trackedProducts) : Cardinality(FetchesFor(i, k)) <= 1


\* C27 (as claimed): a notification titled 'Back in Stock!' is one of a
\* status_change from sold_out to an available status.
C27_BackInStock ==
  \A n \in notifications :
    n.title = "Back in Stock!" =>
      /\ n.change.type = "status_change"
      /\ n.change.from = "sold_out"
      /\ n.change.to \in {"in_stock", "low_stock"}


(***************************************************************************)
(* Tracking an item and checking it while the site stays as it is: the     *)
(* content script hands over the colors it found, which may be none        *)
(***************************************************************************)
\* queryData?.colors?.map(...) || [] of the content script
NoColorsFound(product) == [product EXCEPT !.availableColors = <<>>]

TrackProducts == {BlackM, NavyS, NoColorsFound(BlackM)}

InitTrack ==
  /\ trackedProducts \in {<<>>, <<Tracked(WhiteM, TRUE)>>}
  /\ notificationMap = <<>>
  /\ badge = Badge(EmptyText, NoStr)
  /\ notifications = {}
  /\ tabs = <<>>
  /\ ops = [i \in Slots |-> UnusedOp]
  /\ site \in Sites
  /\ now = 0
  /\ faults = TRUE
  /\ lastCycle = NoCycle

NextTrack ==
  \/ \E i \in Slots, p \in TrackProducts : Idle /\ StartAdd(i, p)
  \/ \E i \in Slots : AddFetchReturns(i)
  \/ \E i \in Slots : Idle /\ AlarmFired(i)
  \/ \E i \in Slots : Idle /\ CheckNow(i)
  \/ \E i \in Slots : CheckItem(i)
  \/ \E i \in Slots : FetchReturns(i)
  \/ \E i \in Slots : MarkdownReturns(i)
  \/ \E i \in Slots : ReadNotificationMap(i)
  \/ \E i \in Slots : WriteNotificationMap(i)
  \/ \E i \in Slots : StoreProducts(i)
  \/ \E i \in Slots : UpdateBadge(i)

SpecTrack == InitTrack /\ [][NextTrack]_vars

\* the item was added by addProduct in this behaviour
JustAdded(p) == p.addedAt > 0
\* addProduct took its baseline from the live page (line 745 stamps lastChecked)
BaselineTaken(p) == p.lastChecked # Null /\ p.lastChecked >= p.addedAt

\* C28 (as claimed): a cycle against the page as it was when an item was added
\* gives no new_color event for that item, whatever became of the baseline fetch.
C28_NoNewColorAfterAdd ==
  \A i \in Slots : IsCycle(i) =>
    \A k \in 1..Len(ops[i].log) :
      JustAdded(ops[i].trackedProducts[k]) =>
        /\ ~HasType(ops[i].log[k].raw, "new_color")
        /\ ~HasType(ops[i].log[k].events, "new_color")

\* C28, where the baseline fetch of addProduct returned a snapshot: a cycle
\* against the page as it was when the item was added gives no new_color event
\* for that item.
C28_NoNewColorAfterBaseline ==
  \A i \in Slots : IsCycle(i) =>
    \A k \in 1..Len(ops[i].log) :
      (JustAdded(ops[i].trackedProducts[k]) /\ BaselineTaken(ops[i].trackedProducts[k])) =>
        /\ ~HasType(ops[i].log[k].raw, "new_color")
        /\ ~HasType(ops[i].log[k].events, "new_color")


(***************************************************************************)
(* Cycles that run to their end: every fetch that was issued returns or    *)
(* fails, and the service worker runs each continuation that is ready      *)
(***************************************************************************)
NextCycles ==
  \/ \E i \in Slots : Idle /\ AlarmFired(i)
  \/ \E i \in Slots : Idle /\ CheckNow(i)
  \/ \E i \in Slots : CheckItem(i)
  \/ \E i \in Slots : FetchReturns(i)
  \/ \E i \in Slots : MarkdownReturns(i)
  \/ \E i \in Slots : ReadNotificationMap(i)
  \/ \E i \in Slots : WriteNotificationMap(i)
  \/ \E i \in Slots : StoreProducts(i)
  \/ \E i \in Slots : UpdateBadge(i)

\* a continuation that is ready runs; a fetch that is pending, of a product
\* page or of a -MD page, eventually returns or fails
CyclesRun ==
  \A i \in Slots :
    /\ WF_vars(CheckItem(i))
    /\ WF_vars(ReadNotificationMap(i))
    /\ WF_vars(WriteNotificationMap(i))
    /\ WF_vars(StoreProducts(i))
    /\ WF_vars(UpdateBadge(i))
    /\ []<>(ops[i].pc # "fetch")
    /\ []<>(ops[i].pc # "mdfetch")

SpecCycles == Init /\ [][NextCycles]_vars /\ CyclesRun

\* the two lists hold the same items in the same order: productId, color,
\* size and url
SameItems(list, other) ==
  /\ Len(list) = Len(other)
  /\ \A k \in 1..Len(list) :
       /\ list[k].productId = other[k].productId /\ list[k].color = other[k].color
       /\ list[k].size = other[k].size /\ list[k].url = other[k].url

\* C29: every cycle that has started on a non-empty list reaches the point
\* where it has written its list, and the stored list then holds the items it
\* loaded, in their order, whether or not fetches or notifications of items
\* failed.
C29_CycleTerminates ==
  \A i \in Slots :
    IsCycle(i) ~> (Finished(i) /\ ops[i].writes = 1
                   /\ SameItems(trackedProducts, ops[i].trackedProducts))

\* a cycle over two items has written its list after one of them failed
C29_Witness ==
  \E i \in Slots :
    /\ Finished(i) /\ ops[i].writes = 1 /\ Len(ops[i].trackedProducts) = 2
    /\ \E k \in 1..2 : ItemFailed(i, k)
    /\ SameItems(trackedProducts, ops[i].trackedProducts)


\* item k of cycle i got its snapshot from fetchCache: the cycle issued no
\* fetch of the item's own URL
FromCache(i, k) ==
  /\ ops[i].log[k].got
  /\ \A f \in 1..Len(ops[i].fetched) :
       ops[i].fetched[f].url # ops[i].trackedProducts[k].url

\* C30 (as claimed): the snapshot an item served from fetchCache is diffed
\* against has the stockStatus, currentPrice and onSale that the extraction
\* gives for the item's own color and size, and the item is stored with them.
C30_OwnVariantFromCache ==
  \A i \in Slots : IsCycle(i) =>
    \A k \in 1..Len(ops[i].log) :
      FromCache(i, k) =>
        LET p == ops[i].trackedProducts[k]
            own == parseProductHtml(ServedPage(p), p)
            newData == ops[i].log[k].newData
        IN /\ newData.stockStatus = own.stockStatus
           /\ newData.currentPrice = own.currentPrice
           /\ newData.onSale = own.onSale
           /\ (Merged(i, k) /\ ~ops[i].log[k].md.found) =>
                ops[i].updatedProducts[k].stockStatus = own.stockStatus


\* C31 (as claimed): every stored item has originalPrice non-null only while
\* onSale is true.
C31_OriginalPriceOnlyOnSale ==
  \A k \in 1..Len(trackedProducts) :
    trackedProducts[k].originalPrice # Null => trackedProducts[k].onSale


(***************************************************************************)
(* The merge of lines 171-184 on its own: a stored item, a snapshot, the   *)
(* events detectChanges gives for them, and no markdown transition         *)
(***************************************************************************)
MergeStored ==
  {[Tracked(BlackM, t) EXCEPT !.currentPrice = p, !.originalPrice = o, !.lastChange = l] :
     t \in BOOLEAN, p \in {58, 78}, o \in {Null, 78},
     l \in {NoChange, LastChange("price_change", 0)}}

MergeSnapshots ==
  {Snapshot(p, o, s, st, c) :
     p \in {Null, 0, 58, 78}, o \in {Null, 78}, s \in BOOLEAN, st \in StockStatuses,
     c \in {<<>>, <<Black, White, Red>>}}

InitMerge ==
  /\ trackedProducts = <<>>
  /\ notificationMap = <<>>
  /\ badge = Badge(EmptyText, NoStr)
  /\ notifications = {}
  /\ tabs = <<>>
  /\ site = Site("shirt", "404", "tee")
  /\ now = 1
  /\ faults = FALSE
  /\ lastCycle = NoCycle
  /\ \E product \in MergeStored, newData \in MergeSnapshots :
       ops = [i \in Slots |->
                IF i = 1
                THEN [UnusedOp EXCEPT !.kind = "merge", !.pc = "merge", !.started = 1,
                                      !.product = product, !.newData = newData,
                                      !.changes = detectChanges(product, newData)]
                ELSE UnusedOp]

\* updatedProducts.push({ ...product, ... })
CallMerge(i) ==
  /\ ops[i].kind = "merge" /\ ops[i].pc = "merge"
  /\ ops' = [ops EXCEPT
               ![i].updatedProducts =
                  Append(@, MergeItem(ops[i].product, ops[i].newData, ops[i].changes,
                                      NoTransition, ops[i].started)),
               ![i].pc = "merged"]
  /\ UNCHANGED <<trackedProducts, notificationMap, badge, notifications, tabs, site,
                 now, faults, lastCycle>>

NextMerge == \E i \in Slots : CallMerge(i)

SpecMerge == InitMerge /\ [][NextMerge]_vars

\* descriptive and setting fields of an item
SettingFields ==
  {"productId", "color", "size", "name", "url", "region", "trackNewColors", "addedAt"}

\* C32: the merged item has the snapshot's currentPrice and originalPrice
\* unless they are null, and then the stored ones; the snapshot's colors unless
\* they are empty, and then the stored ones; lastChecked stamped; and its
\* descriptive and setting fields as stored.
C32_MergeRule ==
  \A i \in Slots :
    (ops[i].kind = "merge" /\ ops[i].pc = "merged") =>
      LET p == ops[i].product
          d == ops[i].newData
          m == ops[i].updatedProducts[1]
      IN /\ m.currentPrice = IF d.currentPrice = Null THEN p.currentPrice ELSE d.currentPrice
         /\ m.originalPrice = IF d.originalPrice = Null THEN p.originalPrice
                              ELSE d.originalPrice
         /\ m.availableColors = IF d.availableColors = <<>> THEN p.availableColors
                                ELSE d.availableColors
         /\ m.lastChecked = ops[i].started
         /\ \A f \in SettingFields : m[f] = p[f]

\* a merge of a snapshot without prices and colors into an item that has them
C32_Witness ==
  \E i \in Slots :
    /\ ops[i].kind = "merge" /\ ops[i].pc = "merged"
    /\ ops[i].newData.currentPrice = Null /\ ops[i].newData.originalPrice = Null
    /\ ops[i].newData.availableColors = <<>>
    /\ ops[i].updatedProducts[1].currentPrice = 58
    /\ ops[i].updatedProducts[1].originalPrice = 78
    /\ ops[i].updatedProducts[1].availableColors = <<Black, White>>
    /\ ops[i].updatedProducts[1].lastChecked = 1


\* C33: a merged item that had events in the cycle, in the order they were
\* notified, is stored with lastChange of the type of the first one; a merged
\* item without events, its new_color events dropped by the dedup included,
\* is stored with the lastChange it had.
C33_LastChange ==
  \A i \in Slots :
    IsCycle(i) =>
      \A k \in 1..Len(ops[i].log) :
        Merged(i, k) =>
          LET e == ops[i].log[k].events
              m == ops[i].updatedProducts[k]
          IN IF Len(e) > 0
             THEN m.lastChange # NoChange /\ m.lastChange.type = e[1].type
             ELSE m.lastChange = ops[i].trackedProducts[k].lastChange

\* a cycle in which one item had several events of different types and is
\* stored with the first type, and a later item lost its only events to the
\* dedup and kept its lastChange
C33_Witness ==
  \E i \in Slots :
    /\ IsCycle(i)
    /\ \E a, b \in 1..Len(ops[i].log) :
         /\ Merged(i, a) /\ Merged(i, b)
         /\ Len(ops[i].log[a].events) > 1
         /\ ops[i].log[a].events[1].type # ops[i].log[a].events[Len(ops[i].log[a].events)].type
         /\ ops[i].updatedProducts[a].lastChange.type = ops[i].log[a].events[1].type
         /\ HasType(ops[i].log[b].raw, "new_color")
         /\ ops[i].log[b].events = <<>>
         /\ ops[i].updatedProducts[b].lastChange = ops[i].trackedProducts[b].lastChange


(***************************************************************************)
(* parseProductHtml on its own, one strategy or fallback at a time, for a  *)
(* document and a product drawn from bounded sets                          *)
(***************************************************************************)
ParsePages ==
  {Page(n, so, <<Black, White>>, skus, drv, ShirtSummary, ld, vs, low, sold, vis, Null) :
     n \in {"absent", "malformed", "ok"}, so \in BOOLEAN,
     skus \in {<<>>, <<Sku("c1", "M", TRUE, 78, Null)>>, <<Sku("c1", "M", FALSE, 78, Null)>>},
     drv \in {<<>>, <<Driver("c1", {"S"})>>},
     ld \in BOOLEAN,
     vs \in {<<>>, <<Variant("Navy", "S", 300, FALSE), Variant("Black", "M", 78, FALSE)>>,
             <<Variant("Navy", "S", 300, TRUE), Variant("Black", "M", 78, TRUE)>>},
     low \in BOOLEAN, sold \in BOOLEAN, vis \in BOOLEAN}

ParseProducts == {BlackM, NavyS}

InitParse ==
  /\ trackedProducts = <<>>
  /\ notificationMap = <<>>
  /\ badge = Badge(EmptyText, NoStr)
  /\ notifications = {}
  /\ tabs = <<>>
  /\ site = Site("shirt", "404", "tee")
  /\ now = 1
  /\ faults = FALSE
  /\ lastCycle = NoCycle
  /\ \E html \in ParsePages, product \in ParseProducts :
       ops = [i \in Slots |->
                IF i = 1
                THEN [UnusedOp EXCEPT !.kind = "parse", !.pc = "strategy1", !.started = 1,
                                      !.product = product, !.html = html,
                                      !.newData = EmptyResult]
                ELSE UnusedOp]

ParseFrame ==
  UNCHANGED <<trackedProducts, notificationMap, badge, notifications, tabs, site,
              now, faults, lastCycle>>

\* lines 245-334
ParseStrategy1(i) ==
  /\ ops[i].kind = "parse" /\ ops[i].pc = "strategy1"
  /\ ops' = [ops EXCEPT ![i].newData = ParseNextData(ops[i].html, ops[i].product, @),
                        ![i].pc = "strategy2"]
  /\ ParseFrame

\* lines 336-401
ParseStrategy2(i) ==
  /\ ops[i].kind = "parse" /\ ops[i].pc = "strategy2"
  /\ ops' = [ops EXCEPT ![i].newData = ParseJsonLd(ops[i].html, ops[i].product, @),
                        ![i].pc = "stocktext"]
  /\ ParseFrame

\* lines 403-438
ParseFallbackStock(i) ==
  /\ ops[i].kind = "parse" /\ ops[i].pc = "stocktext"
  /\ ops' = [ops EXCEPT ![i].newData = ParseStockText(ops[i].html, ops[i].product, @),
                        ![i].pc = "pricetext"]
  /\ ParseFrame

\* lines 444-452
ParseFallbackPrice(i) ==
  /\ ops[i].kind = "parse" /\ ops[i].pc = "pricetext"
  /\ ops' = [ops EXCEPT ![i].newData = ParsePriceText(ops[i].html, @),
                        ![i].pc = "parsed"]
  /\ ParseFrame

NextParse ==
  \E i \in Slots :
    \/ ParseStrategy1(i)
    \/ ParseStrategy2(i)
    \/ ParseFallbackStock(i)
    \/ ParseFallbackPrice(i)

SpecParse == InitParse /\ [][NextParse]_vars

\* C34: in a pass of parseProductHtml, a result whose stockStatus is sold_out
\* still has stockStatus sold_out after every later strategy and fallback.
C34_SoldOutSticks ==
  [][\A i \in Slots :
       (ops[i].kind = "parse" /\ ops[i].newData.stockStatus = "sold_out")
         => ops'[i].newData.stockStatus = "sold_out"]_vars

\* a finished pass over a US document in which a strategy found sold_out and
\* the low-stock text is present: the result is sold_out
C34_Witness ==
  \E i \in Slots :
    /\ ops[i].kind = "parse" /\ ops[i].pc = "parsed"
    /\ ~isIntl(ops[i].product.url)
    /\ ops[i].html.lowStockText
    /\ ops[i].html.nextData = "ok" /\ ops[i].html.isSoldOut
    /\ ops[i].newData.stockStatus = "sold_out"


\* C35 (as claimed): when an addProduct and a check cycle are the only
\* handlers that have run, in whatever interleaving, an item for which
\* addProduct answered success is in the stored list.
C35_AddedStaysTracked ==
  \A i, j \in Slots :
    (/\ ops[i].kind = "add" /\ ops[i].result = "success"
     /\ IsCycle(j) /\ now = 2)
      => AlreadyTracked(trackedProducts, ops[i].product)


\* C36 (as claimed): when a removeProduct and a check cycle are the only
\* handlers that have run, in whatever interleaving, the item for which
\* removeProduct answered success is not in the stored list.
C36_RemovedStaysRemoved ==
  \A i, j \in Slots :
    (/\ ops[i].kind = "remove" /\ ops[i].result = "success"
     /\ IsCycle(j) /\ now = 2)
      => ~AlreadyTracked(trackedProducts, ops[i].trackedProducts[ops[i].index + 1])


(***************************************************************************)
(* A check cycle and clicks on notifications, overlapping: the table       *)
(* already holds the entry of a notification of an earlier cycle           *)
(***************************************************************************)
\* the notification of an earlier cycle, still on display, and its entry
EarlierNotification == Notification(NotifId(0, 1, 1), BlackM, StatusChange("sold_out", "in_stock"))
EarlierMap == Put(<<>>, EarlierNotification.id, BlackM.url)

InitRace ==
  /\ trackedProducts = <<Tracked(BlackM, TRUE)>>
  /\ notificationMap = EarlierMap
  /\ badge = Badge(EmptyText, NoStr)
  /\ notifications = {EarlierNotification}
  /\ tabs = <<>>
  /\ ops = [i \in Slots |-> UnusedOp]
  /\ site \in {Site("shirt_black_out", "404", "tee"), Site("shirt_black_sale", "404", "tee"),
               Site("shirt_red", "404", "tee"), Site("shirt_black_gone", "shirt_md", "tee")}
  /\ now = 0
  /\ faults = FALSE
  /\ lastCycle = NoCycle

NextRace ==
  \/ \E i \in Slots : AlarmFired(i)
  \/ \E i \in Slots : CheckNow(i)
  \/ \E i \in Slots : CheckItem(i)
  \/ \E i \in Slots : FetchReturns(i)
  \/ \E i \in Slots : MarkdownReturns(i)
  \/ \E i \in Slots : ReadNotificationMap(i)
  \/ \E i \in Slots : WriteNotificationMap(i)
  \/ \E i \in Slots : StoreProducts(i)
  \/ \E i \in Slots : UpdateBadge(i)
  \/ \E i \in Slots, n \in notifications : StartClick(i, n.id)
  \/ \E i \in Slots : ClickOpens(i)
  \/ \E i \in Slots : ClickClears(i)

SpecRace == InitRace /\ [][NextRace]_vars

\* C37 (as claimed): once a cycle and a click that opened a tab, the only
\* handlers that have run, have both finished with notificationMap, every
\* notification still on display, which is every notification created and
\* not clicked, has an entry in notificationMap.
C37_NoEntryLost ==
  \A i \in Slots :
    (/\ Finished(i) /\ now = 2 /\ Len(tabs) = 1
     /\ \A j \in Slots : ops[j].kind # "click")
      => \A n \in notifications : n.id \in DOMAIN notificationMap

\* C38 (as claimed): the handling of a click on a notification a cycle has
\* created, at any moment from its creation on, opens a tab for that
\* notification.
C38_ClickThrough ==
  [][\A i \in Slots :
       (ClickHandled(i) /\ ops[i].notifId # EarlierNotification.id)
         => /\ Len(tabs') = Len(tabs) + 1
            /\ tabs'[Len(tabs')].notifId = ops[i].notifId
            /\ tabs'[Len(tabs')].url # NoUrl]_vars

\* the fetches of cycle i that have not returned
InFlight(i) == {f \in 1..Len(ops[i].fetched) : ops[i].fetched[f].outcome = "pending"}

\* C39: at every moment of a cycle at most one of its fetches, of a product
\* page or of a -MD page, is in flight; it is a fetch for the item the loop is
\* at, and every earlier item has been processed and pushed to updatedProducts.
C39_OneFetchAtATime ==
  \A i \in Slots :
    IsCycle(i) =>
      /\ Cardinality(InFlight(i)) <= 1
      /\ \A f \in InFlight(i) :
           /\ ops[i].idx \in 1..Len(ops[i].trackedProducts)
           /\ ops[i].fetched[f].url \in {ops[i].trackedProducts[ops[i].idx].url,
                                         mdUrlOf(ops[i].trackedProducts[ops[i].idx].url)}
           /\ Len(ops[i].updatedProducts) = ops[i].idx - 1
           /\ Len(ops[i].log) = ops[i].idx - 1

\* a cycle whose fetch for its second item is in flight, after the fetches of
\* the product page and of the -MD page for the first item have returned
C39_Witness ==
  \E i \in Slots :
    /\ IsCycle(i) /\ ops[i].idx = 2
    /\ Len(ops[i].fetched) = 3
    /\ ops[i].fetched[2].url = mdUrlOf(ops[i].trackedProducts[1].url)
    /\ InFlight(i) = {3}
    /\ Len(ops[i].updatedProducts) = 1

==========================================================================
